---- MODULE Spec2Model ----
(***************************************************************************)
(* CellsDominion: the per-tick update cycle of the continuous-ecosystem    *)
(* Simulation (src/unnamed/part_000, second class), the Colony graph and   *)
(* the Cell behaviour it drives (src/js/cell.js).                          *)
(*                                                                         *)
(* Numbers are fixed point: one unit is 0.01 of the JavaScript value       *)
(* (health 100 is 10000, size 8 is 800); products with a fractional factor *)
(* are taken with integer division.  A cell object and its id string are   *)
(* identified: the model gives every constructed cell a distinct number.   *)
(* Positions are not kept: every distance test of the code is a            *)
(* nondeterministic choice made where the code evaluates it.               *)
(***************************************************************************)
EXTENDS Integers, Sequences, FiniteSets, TLC

VARIABLES
    cell,        \* every Cell object constructed so far, by number
    colony,      \* every Colony object constructed so far, by number
    cells,       \* Simulation.cells: sequence of cell numbers
    colonies,    \* Simulation.colonies: sequence of colony numbers
    food,        \* number of unconsumed particles held by the FoodManager
    spawnCooldown, \* FoodManager.spawnCooldown
    viruses,     \* Simulation.viruses: sequence of Virus objects
    tick,        \* Simulation.tick
    updates,     \* Cell.update calls made so far (a call counter in the class specifications)
    extinctions, \* Simulation.stats.extinctions
    settings,    \* Simulation.settings: initialCells, minPopulation, maxPopulation, maxFood
    pressure,    \* environmental pressures of the running tick (the Environment in its class specification)
    pc,          \* position inside updateSingleStep ("idle" between ticks, "api" for direct calls)
    idx,         \* index of the cells.forEach callback that runs next
    loopLen,     \* number of elements cells.forEach visits (fixed at loop start)
    deadCells,   \* local deadCells of updateSingleStep: <<cell, index>> records
    newCells,    \* local newCells of updateSingleStep
    raised,      \* TRUE once a call has thrown
    log,         \* history: phases entered by the running tick, in order (events in the class specifications)
    calls,       \* handleCellInteraction invocations of the running tick (calls recorded in the class specifications)
    updated,     \* cells whose update() ran in the running tick
    born,        \* offspring constructed by createOffspring in the running tick
    removed,     \* cells spliced out as dead in the running tick
    zeroed,      \* cells whose health or energy was seen <= 0 in the running tick
    entered      \* cells.length when applyNaturalSelection was entered in the running tick, -1 if it was not

vars == <<cell, colony, cells, colonies, food, spawnCooldown, viruses, tick, updates, extinctions,
          settings, pressure, pc, idx, loopLen, deadCells, newCells, raised,
          log, calls, updated, born, removed, zeroed, entered>>

(***************************************************************************)
(* Settings of the simulation, as reset(newSettings) can set them, and the *)
(* bounds of the exploration.                                              *)
(***************************************************************************)
InitialCells == 2      \* settings.initialCells
MinPopulation == 2     \* settings.minPopulation
MaxPopulation == 3     \* settings.maxPopulation
MaxFoodModel == 1      \* settings.maxFood

MaxUpdates == 2        \* Cell.update calls explored in one behaviour
MaxObjects == 5        \* Cell objects constructed in one behaviour
MaxColonies == 2       \* Colony objects constructed in one behaviour

MaxBonds == 4          \* Cell.maxBonds
MaxColonyMembers == 20 \* Colony.addMember size limit
VirusMinCells == 10    \* spawnViruses: cells needed before a virus spawns
MaxViruses == 1         \* settings.maxViruses

NoCell == 0
NoColony == 0

(***************************************************************************)
(* Helpers                                                                 *)
(***************************************************************************)
Includes(seq, x) == \E i \in DOMAIN seq : seq[i] = x

Range(seq) == {seq[i] : i \in DOMAIN seq}

Min(a, b) == IF a <= b THEN a ELSE b

Max(a, b) == IF a >= b THEN a ELSE b

\* Array.prototype.splice(index, 1), index counted from 1
Splice(seq, i) == [j \in 1..(Len(seq) - 1) |-> IF j < i THEN seq[j] ELSE seq[j + 1]]

\* Array.prototype.indexOf, counted from 1; 0 when absent
IndexOf(seq, x) ==
    IF Includes(seq, x) THEN CHOOSE i \in DOMAIN seq : seq[i] = x /\ \A j \in 1..(i - 1) : seq[j] # x
    ELSE 0

\* Array.prototype.filter(id => id !== x)
Without(seq, x) == SelectSeq(seq, LAMBDA y : y # x)

(***************************************************************************)
(* Colony (src/js/cell.js 36-197).  A world W is [cell, colony].           *)
(***************************************************************************)
\* `${Math.min(cell1.id, cell2.id)}_${Math.max(cell1.id, cell2.id)}`: the ids
\* are strings "cell_<ms>_<n>", Math.min and Math.max of them are NaN.
BondKey(id1, id2) == "NaN_NaN"

ColonyConstructor(W, founder) ==
    [cell   |-> [W.cell EXCEPT ![founder].colony = Len(W.colony) + 1,
                               ![founder].isColonyFounder = TRUE],
     colony |-> Append(W.colony, [members |-> <<founder>>,
                                  founder |-> founder,
                                  bonds   |-> {},
                                  sharedEnergy |-> 0])]

CreateBond(W, k, c1, c2) ==
    LET col == W.colony[k] IN
    IF ~Includes(col.members, c1) \/ ~Includes(col.members, c2) THEN W
    ELSE IF Len(W.cell[c1].bonds) >= MaxBonds \/ Len(W.cell[c2].bonds) >= MaxBonds THEN W
    ELSE IF \E b \in col.bonds : b.key = BondKey(c1, c2) THEN W
    ELSE [cell   |-> [[W.cell EXCEPT ![c1].bonds = Append(@, c2)]
                              EXCEPT ![c2].bonds = Append(@, c1)],
          colony |-> [W.colony EXCEPT ![k].bonds =
                         @ \cup {[key |-> BondKey(c1, c2), cell1 |-> c1,
                                  cell2 |-> c2, strength |-> 1000]}]]

\* fault variant of addMember: the member is listed but cell.colony is not set
AddMember_noRef(W, k, c, bondWith) ==
    LET col == W.colony[k] IN
    IF Includes(col.members, c) THEN W
    ELSE IF Len(col.members) >= MaxColonyMembers THEN W
    ELSE LET W1 == [cell   |-> W.cell,
                    colony |-> [W.colony EXCEPT ![k].members = Append(@, c)]]
         IN  IF bondWith # NoCell /\ Includes(W1.colony[k].members, bondWith)
             THEN CreateBond(W1, k, c, bondWith)
             ELSE W1

AddMember(W, k, c, bondWith) ==
    LET col == W.colony[k] IN
    IF Includes(col.members, c) THEN W
    ELSE IF Len(col.members) >= MaxColonyMembers THEN W
    ELSE LET W1 == [cell   |-> [W.cell EXCEPT ![c].colony = k],
                    colony |-> [W.colony EXCEPT ![k].members = Append(@, c)]]
         IN  IF bondWith # NoCell /\ Includes(W1.colony[k].members, bondWith)
             THEN CreateBond(W1, k, c, bondWith)
             ELSE W1

\* The result is [W, threw]: bonds.forEach calls bond.includes on the stored
\* bond object {cell1, cell2, strength, age}, which has no such method, so the
\* first bond visited throws a TypeError after the member was unlinked.
RemoveMember(W, k, c) ==
    LET col == W.colony[k] IN
    IF ~Includes(col.members, c) THEN [W |-> W, threw |-> FALSE]
    ELSE LET W1 == [cell   |-> [W.cell EXCEPT ![c].colony = NoColony],
                    colony |-> [W.colony EXCEPT ![k].members = Splice(@, IndexOf(col.members, c))]]
         IN  IF col.bonds # {}
             THEN [W |-> W1, threw |-> TRUE]
             ELSE [W |-> [W1 EXCEPT !.cell[c].bonds = <<>>], threw |-> FALSE]

\* Cell.foundColony
FoundColony(W, a, partner) ==
    IF W.cell[a].colony # NoColony \/ W.cell[partner].colony # NoColony THEN W
    ELSE AddMember(ColonyConstructor(W, a), Len(W.colony) + 1, partner, a)

(***************************************************************************)
(* Cell (src/js/cell.js 199-2622).  Modelled defence types: armor, spikes, *)
(* swarm; modelled special abilities: none, fusion, splitting.  Every      *)
(* modelled cell is a circle with normal metabolism and tolerances above   *)
(* the early values of generateEnvironment, and stays below the maturity   *)
(* age (200 ticks at least), so it is a juvenile throughout.               *)
(***************************************************************************)
\* new Cell(x, y, traits): maxHealth defaults to 100 and maxEnergy to 80
\* whatever health (80..120) and energy (60..100) were drawn.
CellConstructor(h, e, sz, d, a) ==
    [health |-> h, maxHealth |-> 10000, energy |-> e, maxEnergy |-> 8000,
     size |-> sz, shape |-> "circle", defenseType |-> d, specialAbility |-> a,
     spikesDamage |-> (sz * 3) \div 10,
     age |-> 0, reproduced |-> FALSE,
     isVirus |-> FALSE, isInfected |-> FALSE,
     colony |-> NoColony, bonds |-> <<>>, isColonyFounder |-> FALSE]

\* Cells as the constructor can draw them: health 80..120 and energy 60..100
\* against a maxHealth of 100 and a maxEnergy of 80.
FreshCells ==
    { CellConstructor(9000, 7000, 800, "armor", "fusion"),
      CellConstructor(11000, 7500, 1600, "spikes", "splitting") }

\* A cell as earlier ticks can leave it: nearly out of health.
WornCells ==
    { [CellConstructor(9000, 7000, 800, "armor", "none") EXCEPT !.health = 50, !.age = 50] }

StartCells == FreshCells \cup WornCells

\* Cells drawn by spawnInitialCells, addRandomCell and createOffspring during a run.
SpawnCells ==
    { CellConstructor(10000, 7500, 1000, "swarm", "none") }

\* Environmental pressures of a tick: the health a cell loses to temperature
\* stress (none, or 0.6 with 0.3 energy), toxicity and radiation in 1/100.
Pressures ==
    { [temp |-> 0, toxicity |-> 0, radiation |-> 0],
      [temp |-> 60, toxicity |-> 0, radiation |-> 0] }

\* Energy of one food particle (Food.energyValue = radius * 8, radius 3).
FoodValue == 2400

IsDead(c) == c.health <= 0 \/ c.energy <= 0

Zeroes(W, ids) == {c \in ids : IsDead(W.cell[c])}

\* Simulation.applyEnvironmentalEffects, temperature branch
SimEnvironmentalEffects(W, c, tempDamage) ==
    IF tempDamage > 0
    THEN [W EXCEPT !.cell[c].health = @ - tempDamage,
                   !.cell[c].energy = @ - tempDamage \div 2]
    ELSE W

\* Cell.calculateEnergyDrain for a juvenile circle with normal metabolism
CalculateEnergyDrain(c) == ((10 + c.size \div 100) * 8) \div 10

\* Cell.fusionBehavior: the cells close enough to fuse with
FusionCandidates(W, list, c) ==
    { o \in Range(list) : /\ o # c
                          /\ W.cell[o].specialAbility = "fusion"
                          /\ W.cell[o].size + W.cell[c].size < 2500 }

FusionBehavior(W, c, partner) ==
    IF partner = NoCell THEN W
    ELSE LET pc0 == W.cell[partner] IN
         [W EXCEPT !.cell[c].size = @ + (pc0.size * 3) \div 10,
                   !.cell[c].health = @ + (pc0.health * 2) \div 10,
                   !.cell[c].energy = @ + (pc0.energy * 3) \div 10,
                   !.cell[partner].health = 0]

CanSplit(c) == c.energy * 10 > c.maxEnergy * 9 /\ c.size > 1200

SplittingBehavior(W, c, roll) ==
    IF roll /\ CanSplit(W.cell[c])
    THEN [W EXCEPT !.cell[c].reproduced = TRUE,
                   !.cell[c].size = (@ * 7) \div 10]
    ELSE W

\* Cell.applySpecialAbilities
ApplySpecialAbilities(W, c, r) ==
    CASE W.cell[c].specialAbility = "fusion" -> FusionBehavior(W, c, r.fuse)
      [] W.cell[c].specialAbility = "splitting" -> SplittingBehavior(W, c, r.split)
      [] OTHER -> W

\* Cell.updateColonyBehavior: the cells that can pass the nearbyCells filter
BondCandidates(W, list, c) ==
    { o \in Range(list) : /\ o # c
                          /\ W.cell[o].defenseType = W.cell[c].defenseType
                          /\ \/ W.cell[c].colony = NoColony
                             \/ W.cell[o].colony = NoColony
                             \/ W.cell[c].colony = W.cell[o].colony }

\* bond management block of Cell.updateColonyBehavior; dist is the distance
\* class of the two bonded members ("far", "mid" or "close")
ManageBonds(W, k, dist) ==
    LET col   == W.colony[k]
        alive == {b \in col.bonds : Includes(col.members, b.cell1) /\ Includes(col.members, b.cell2)}
        Step(b) == IF b \notin alive THEN b
                   ELSE IF dist = "far" THEN [b EXCEPT !.strength = @ - 15]
                   ELSE IF dist = "close" THEN [b EXCEPT !.strength = Min(1000, @ + 10)]
                   ELSE b
        gone  == {b \in alive : Step(b).strength <= 0}
        Unlink(cs, b) == [[cs EXCEPT ![b.cell1].bonds = Without(@, b.cell2)]
                              EXCEPT ![b.cell2].bonds = Without(@, b.cell1)]
        cs1   == IF gone = {} THEN W.cell
                 ELSE LET b == CHOOSE x \in gone : TRUE IN Unlink(W.cell, b)
    IN  [cell   |-> cs1,
         colony |-> [W.colony EXCEPT ![k].bonds = {Step(b) : b \in (col.bonds \ gone)}]]

\* Cell.updateColonyBehavior.  r.gate: the 2% roll that lets a member of a
\* formed colony go on; r.found, r.invite: the candidate picked by find()
\* when the formation or invitation roll succeeds, NoCell otherwise.
UpdateColonyBehavior(W, list, c, r) ==
    LET me == W.cell[c] IN
    IF me.colony # NoColony /\ Len(W.colony[me.colony].members) > 1 /\ ~r.gate THEN W
    ELSE IF BondCandidates(W, list, c) = {} THEN W
    ELSE
      LET W1 == IF /\ me.colony = NoColony
                   /\ me.energy * 2 > me.maxEnergy
                   /\ r.found # NoCell
                   /\ r.found \in BondCandidates(W, list, c)
                   /\ W.cell[r.found].colony = NoColony
                THEN FoundColony(W, c, r.found)
                ELSE W
          me1 == W1.cell[c]
          W2 == IF /\ me1.colony # NoColony
                   /\ me1.isColonyFounder
                   /\ Len(W1.colony[me1.colony].members) < 8
                   /\ r.invite # NoCell
                   /\ r.invite \in BondCandidates(W, list, c)
                   /\ W1.cell[r.invite].colony = NoColony
                THEN AddMember(W1, me1.colony, r.invite, c)
                ELSE W1
      IN  IF W2.cell[c].colony # NoColony
          THEN ManageBonds(W2, W2.cell[c].colony, r.dist)
          ELSE W2

\* Cell.update: the result is [W, alive]
CellUpdate(W, list, c, r) ==
    LET W1 == [W EXCEPT !.cell[c].age = @ + 1]
        W2 == [W1 EXCEPT !.cell[c].energy = @ - CalculateEnergyDrain(W1.cell[c])]
        W3 == ApplySpecialAbilities(W2, c, r)
    IN  IF IsDead(W3.cell[c])
        THEN [W |-> W3, alive |-> FALSE]
        ELSE [W |-> UpdateColonyBehavior(W3, list, c, r), alive |-> TRUE]

\* Cell.eat followed by the second top-up of updateSingleStep (both clamp)
Eat(W, c) ==
    LET m  == W.cell[c].maxEnergy
        e1 == Min(W.cell[c].energy + FoodValue, m)
    IN  [W EXCEPT !.cell[c].energy = Min(m, e1 + FoodValue)]

(***************************************************************************)
(* Simulation: cell interaction (src/unnamed/part_000 2932-3078, the       *)
(* definition of handleCellInteraction that is in force: it comes second   *)
(* in the class body and replaces the one at 1982).                        *)
(***************************************************************************)
\* fault variant of calculateDefenseInteraction: armor does not reduce the
\* damage
CalculateDefenseInteraction_noArmor(W, attacker, defender, baseDamage) ==
    [W |-> W, damage |-> baseDamage]

\* calculateDefenseInteraction: the result is [W, damage].  defenseStates
\* are in 1/10; a cell of a type that reads a defence state carries one.
CalculateDefenseInteraction(W, attacker, defender, baseDamage) ==
    LET a  == W.cell[attacker]
        d  == W.cell[defender]
        shielded == d.defenseType = "shield" /\ d.defenseStates.shieldEnergy > 200
        reflects == /\ d.defenseType = "reflect"
                    /\ d.defenseStates.reflectCharge.defined
                    /\ d.defenseStates.reflectCharge.value > 200
        d1 == CASE d.defenseType = "armor" -> baseDamage \div 2
                [] d.defenseType = "shield" ->
                     IF shielded THEN (baseDamage * 3) \div 10 ELSE (baseDamage * 8) \div 10
                [] d.defenseType = "phase" ->
                     IF d.defenseStates.phaseShift > 300 THEN baseDamage \div 10 ELSE baseDamage
                [] OTHER -> baseDamage
        W1 == IF shielded
              THEN [W EXCEPT !.cell[defender].defenseStates.shieldEnergy = @ - 100]
              ELSE IF reflects
              THEN [W EXCEPT !.cell[attacker].health = @ - d1 \div 2,
                             !.cell[defender].defenseStates.reflectCharge.value = @ - 150]
              ELSE W
        charged == a.defenseType = "electric" /\ a.defenseStates.electricCharge > 700
        desperate == /\ a.defenseType = "explosive"
                     /\ W1.cell[attacker].health * 10 < a.maxHealth * 3
        d2 == IF charged THEN (d1 * 15) \div 10 ELSE IF desperate THEN d1 * 2 ELSE d1
        W2 == IF a.defenseType = "spikes"
              THEN [W1 EXCEPT !.cell[defender].health = @ - a.spikesDamage]
              ELSE IF charged THEN [W1 EXCEPT !.cell[defender].energy = @ - 500]
              ELSE W1
        mult == CASE a.shape = "triangle" /\ d.shape = "circle" -> 12
                  [] a.shape = "square" /\ d.shape = "triangle" -> 12
                  [] a.shape = "star" /\ d.shape = "square" -> 13
                  [] a.shape = "hexagon" /\ d.shape = "star" -> 11
                  [] OTHER -> 10
    IN  [W |-> W2, damage |-> Max(0, (d2 * mult) \div 10)]

HandleSpecialCombatEffects(W, c1, c2) ==
    IF W.cell[c1].defenseType = "swarm" /\ W.cell[c2].defenseType = "swarm"
    THEN [W EXCEPT !.cell[c1].health = @ + 100, !.cell[c2].health = @ + 100]
    ELSE W

\* Math.min(3, energy * 0.05)
CombatEnergyCost(e) == Min(300, (e * 5) \div 100)

HandleCellInteraction(W, c1, c2) ==
    LET r1 == CalculateDefenseInteraction(W, c1, c2, (W.cell[c1].size * 2) \div 10)
        r2 == CalculateDefenseInteraction(r1.W, c2, c1, (W.cell[c2].size * 2) \div 10)
        W3 == [r2.W EXCEPT !.cell[c1].health = @ - r2.damage,
                           !.cell[c2].health = @ - r1.damage]
        W4 == [W3 EXCEPT !.cell[c1].energy = @ - CombatEnergyCost(@),
                         !.cell[c2].energy = @ - CombatEnergyCost(@)]
    IN  HandleSpecialCombatEffects(W4, c1, c2)

\* this.cells.forEach(other => ...) of updateSingleStep, from index i on;
\* coll is the set of cells that collide with c
RECURSIVE InteractAll(_, _, _, _, _)
InteractAll(W, list, c, coll, i) ==
    IF i > Len(list) THEN W
    ELSE IF list[i] # c /\ list[i] \in coll
         THEN InteractAll(HandleCellInteraction(W, c, list[i]), list, c, coll, i + 1)
         ELSE InteractAll(W, list, c, coll, i + 1)

\* the handleCellInteraction invocations made for c, each with whether the
\* other participant was already in deadCells and whether the invocation
\* called attemptCooperation: the definition in force (lines 2932-2972, the
\* later of the two in the class body) has no such call
InteractionCalls(c, list, coll, dead) ==
    { [c1 |-> c, c2 |-> o, foundDead |-> Includes(dead, o), cooperation |-> FALSE] :
        o \in (coll \cap Range(list)) \ {c} }

(***************************************************************************)
(* Simulation: reproduction (src/unnamed/part_000 1521-1536, 1943-1979)    *)
(***************************************************************************)
SettingsMaxColonySize == 25

\* createOffspring: the offspring gets the next number; child is the Cell
\* the constructor drew, inherit the 60% roll
CreateOffspring(W, parent, child, inherit) ==
    LET o  == Len(W.cell) + 1
        W1 == [W EXCEPT !.cell = Append(@, child)]
        k  == W.cell[parent].colony
        W2 == IF k # NoColony /\ Len(W.colony[k].members) < SettingsMaxColonySize /\ inherit
              THEN AddMember(W1, k, o, parent)
              ELSE W1
    IN  [W2 EXCEPT !.cell[parent].energy = (@ * 7) \div 10]

\* Math.random() < 1.3 / Math.max(0.8, cells.length / maxPopulation) can
\* fail only when cells.length exceeds 1.3 * maxPopulation
CanFailReproduction(n, maxPopulation) == 10 * n > 13 * maxPopulation

\* fault variant: the offspring is pushed into this.cells during the loop
PushOffspring_intoCells(list, fresh, o) ==
    [cells |-> Append(list, o), newCells |-> fresh]

\* newCells.push(offspring): the result is [cells, newCells]
PushOffspring(list, fresh, o) ==
    [cells |-> list, newCells |-> Append(fresh, o)]

\* lines 1521-1536: the result is [W, cells, newCells, born]
HandleReproduction(W, list, fresh, c, child, inherit, success) ==
    IF ~W.cell[c].reproduced
    THEN [W |-> W, cells |-> list, newCells |-> fresh, born |-> {}]
    ELSE LET o  == Len(W.cell) + 1
             W1 == CreateOffspring(W, c, child, inherit)
             W2 == IF success THEN W1
                   ELSE [W1 EXCEPT !.cell[c].energy = @ + W1.cell[o].maxEnergy \div 2]
             ps == IF success THEN PushOffspring(list, fresh, o)
                   ELSE [cells |-> list, newCells |-> fresh]
         IN  [W |-> [W2 EXCEPT !.cell[c].reproduced = FALSE],
              cells |-> ps.cells, newCells |-> ps.newCells, born |-> {o}]

(***************************************************************************)
(* FoodManager (src/js/camera.js 712-767)                                  *)
(***************************************************************************)
\* FoodManager.reset spawns the initial particles (50, scaled down)
InitialFood == 1

\* ticks between two spawns: Math.max(1, 60 / spawnRate)
SpawnInterval == 9

\* FoodManager.update: the result is [food, spawnCooldown]
FoodManagerUpdate(count, cooldown, maxFood) ==
    IF cooldown - 1 <= 0 /\ count < maxFood
    THEN [food |-> count + 1, spawnCooldown |-> SpawnInterval]
    ELSE [food |-> count, spawnCooldown |-> cooldown - 1]

\* spawnFromDeath: Math.floor(cellSize / 4) + 1 particles, whatever maxFood is
SpawnFromDeath(count, cellSize) == count + (cellSize \div 400) + 1

(***************************************************************************)
(* Simulation: population control (src/unnamed/part_000 2176-2208,         *)
(* 2649-2769).  Rates are in 1/100000, thresholds in 1/1000.               *)
(***************************************************************************)
ScarcityThreshold(n) == IF n < 100 THEN Max(800, 1500 - (100 - n) * 7) ELSE 1500

\* foodPerCell < scarcityThreshold; with no cell the quotient is Infinity or NaN
ResourceScarcity(foodCount, n) == n > 0 /\ foodCount * 1000 < ScarcityThreshold(n) * n

Overpopulation(n, st) == 100 * n > 85 * st.maxPopulation

RemovalRate(foodCount, n, st, env, virusCount) ==
    LET base == IF n < 80 THEN 2000 ELSE IF n < 150 THEN 3500 ELSE 5000
        sc   == ResourceScarcity(foodCount, n)
        ov   == Overpopulation(n, st)
        r1   == IF sc /\ ov THEN Min(base * 3, 12000)
                ELSE IF sc THEN Min((base * 16) \div 10, 8000)
                ELSE IF ov THEN Min((base * 12) \div 10, 6000)
                ELSE base
    IN  r1 + (IF env.toxicity > 60 THEN 3000 ELSE 0)
           + (IF env.radiation > 40 THEN 2000 ELSE 0)
           + (IF virusCount > 10 THEN 4000 ELSE 0)

\* fault variant: the removal count without the minPopulation cap
CellsToRemove_rateOnly(foodCount, n, st, env, virusCount) ==
    (n * RemovalRate(foodCount, n, st, env, virusCount)) \div 100000

\* Math.min(Math.floor(currentCells * removalRate), currentCells - minPopulation)
CellsToRemove(foodCount, n, st, env, virusCount) ==
    Min((n * RemovalRate(foodCount, n, st, env, virusCount)) \div 100000,
        n - st.minPopulation)

\* cells of colonies with five members or more are never candidates
ColonyProtected(W, list) ==
    { c \in Range(list) : W.cell[c].colony # NoColony
                          /\ Len(W.colony[W.cell[c].colony].members) >= 5 }

\* size of sortedCells.filter(...).slice(-Math.floor(length * 0.4)) at most:
\* slice(-0) keeps the whole array
CandidateLimit(n) == IF (n * 4) \div 10 = 0 THEN n ELSE (n * 4) \div 10

\* The sets of cells one call of applyNaturalSelection can remove.  Fitness
\* is not modelled: any cell outside a large colony can be a candidate, and
\* the fitness protection can leave fewer candidates than cellsToRemove.
SelectionRemovals(W, list, foodCount, st, env, virusCount) ==
    LET n == Len(list)
        k == CellsToRemove(foodCount, n, st, env, virusCount)
    IN  IF ~(ResourceScarcity(foodCount, n) \/ Overpopulation(n, st)) \/ k <= 0
        THEN {{}}
        ELSE { R \in SUBSET (Range(list) \ ColonyProtected(W, list)) :
                 Cardinality(R) <= Min(k, CandidateLimit(n)) }

\* removedCells.forEach: indexOf, spawnFromDeath(size * 2), splice
RECURSIVE RemoveSelected(_, _, _, _)
RemoveSelected(W, list, foodCount, R) ==
    IF R = {} THEN [cells |-> list, food |-> foodCount]
    ELSE LET c == CHOOSE x \in R : TRUE IN
         RemoveSelected(W, Splice(list, IndexOf(list, c)),
                        SpawnFromDeath(foodCount, 2 * W.cell[c].size), R \ {c})

\* number of Cell objects maintainPopulation constructs
SpawnCount(n, st) ==
    IF n = 0 THEN st.initialCells
    ELSE IF 10 * n < 4 * st.minPopulation THEN (st.minPopulation * 3) \div 10
    ELSE IF n < st.minPopulation THEN Min(8, st.minPopulation - n)
    ELSE 0

\* the adjustments maintainPopulation makes to a cell it has just added
Boost(kind, c) ==
    IF kind = "emergency" THEN [c EXCEPT !.energy = (c.maxEnergy * 8) \div 10, !.health = c.maxHealth]
    ELSE IF kind = "recovery" THEN [c EXCEPT !.energy = (c.maxEnergy * 6) \div 10]
    ELSE c

\* cells.push of new Cell objects; drawn[i] is the i-th cell constructed
RECURSIVE SpawnAll(_, _, _, _, _)
SpawnAll(W, list, drawn, i, kind) ==
    IF i > Len(drawn) THEN [W |-> W, cells |-> list]
    ELSE SpawnAll([W EXCEPT !.cell = Append(@, Boost(kind, drawn[i]))],
                  Append(list, Len(W.cell) + 1), drawn, i + 1, kind)

\* fault variant of maintainPopulation: no reseeding of an empty population
MaintainPopulation_noReseed(W, list, ext, st, drawn) ==
    LET n == Len(list)
        r == IF 10 * n < 4 * st.minPopulation
             THEN SpawnAll(W, list, SubSeq(drawn, 1, (st.minPopulation * 3) \div 10), 1, "emergency")
             ELSE IF n < st.minPopulation THEN SpawnAll(W, list, drawn, 1, "recovery")
             ELSE [W |-> W, cells |-> list]
    IN  [W |-> r.W, cells |-> r.cells, extinctions |-> ext]

\* maintainPopulation: the result is [W, cells, extinctions]
MaintainPopulation(W, list, ext, st, drawn) ==
    LET n == Len(list)
        r == IF n = 0 THEN SpawnAll(W, list, drawn, 1, "plain")
             ELSE IF 10 * n < 4 * st.minPopulation THEN SpawnAll(W, list, drawn, 1, "emergency")
             ELSE IF n < st.minPopulation THEN SpawnAll(W, list, drawn, 1, "recovery")
             ELSE [W |-> W, cells |-> list]
    IN  [W |-> r.W, cells |-> r.cells,
         extinctions |-> IF n = 0 THEN ext + 1 ELSE ext]

(***************************************************************************)
(* Simulation: colonies (src/unnamed/part_000 1608-1694) and               *)
(* Colony.shareResources (src/js/cell.js 135-160)                          *)
(***************************************************************************)
RECURSIVE TotalEnergy(_, _, _)
TotalEnergy(W, members, i) ==
    IF i > Len(members) THEN 0
    ELSE W.cell[members[i]].energy + TotalEnergy(W, members, i + 1)

\* fault variant of the distribution loop: the target is not limited by the
\* member's maxEnergy
RECURSIVE ShareAmong_noCap(_, _, _, _, _)
ShareAmong_noCap(W, k, i, individualEnergy, sharedEnergy) ==
    LET members == W.colony[k].members IN
    IF i > Len(members) THEN W
    ELSE LET m      == W.cell[members[i]]
             diff   == Min(individualEnergy - m.energy, sharedEnergy)
             W1     == IF m.energy < individualEnergy
                       THEN [W EXCEPT !.cell[members[i]].energy = @ + diff,
                                      !.colony[k].sharedEnergy = @ - diff]
                       ELSE W
         IN  ShareAmong_noCap(W1, k, i + 1, individualEnergy, sharedEnergy)

\* the second loop of shareResources over the members of colony k, from
\* index i on; sharedEnergy is the constant of line 146, the reserve is
\* colony.sharedResources.energy
RECURSIVE ShareAmong(_, _, _, _, _)
ShareAmong(W, k, i, individualEnergy, sharedEnergy) ==
    LET members == W.colony[k].members IN
    IF i > Len(members) THEN W
    ELSE LET m      == W.cell[members[i]]
             target == Min(individualEnergy, m.maxEnergy)
             diff   == Min(target - m.energy, sharedEnergy)
             W1     == IF m.energy < target
                       THEN [W EXCEPT !.cell[members[i]].energy = @ + diff,
                                      !.colony[k].sharedEnergy = @ - diff]
                       ELSE W
         IN  ShareAmong(W1, k, i + 1, individualEnergy, sharedEnergy)

ShareResources(W, k) ==
    LET members == W.colony[k].members
        total   == TotalEnergy(W, members, 1)
    IN  ShareAmong([W EXCEPT !.colony[k].sharedEnergy = total \div 10], k, 1,
                   ((total * 9) \div 10) \div Len(members), total \div 10)

\* stability bonus of updateColonies: += 0.5 health below 90% of maxHealth
RECURSIVE StabilityBonus(_, _, _)
StabilityBonus(W, members, i) ==
    IF i > Len(members) THEN W
    ELSE LET m == W.cell[members[i]] IN
         StabilityBonus(IF m.health * 10 < m.maxHealth * 9
                        THEN [W EXCEPT !.cell[members[i]].health = @ + 50]
                        ELSE W, members, i + 1)

\* coordinated reproduction of updateColonies
RECURSIVE CoordinateReproduction(_, _, _)
CoordinateReproduction(W, members, i) ==
    IF i > Len(members) THEN W
    ELSE LET m == W.cell[members[i]] IN
         CoordinateReproduction(IF m.energy * 10 > m.maxEnergy * 6
                                THEN [W EXCEPT !.cell[members[i]].reproduced = TRUE]
                                ELSE W, members, i + 1)

\* this.colonies.forEach of updateColonies from index i on: a splice inside
\* the callback shifts the next colony under the index just visited.
\* coord is the set of colonies whose 5% coordination roll succeeds.
\* The result is [W, colonies].
RECURSIVE UpdateExisting(_, _, _, _)
UpdateExisting(W, cols, i, coord) ==
    IF i > Len(cols) THEN [W |-> W, colonies |-> cols]
    ELSE LET k == cols[i]
             n == Len(W.colony[k].members)
         IN  IF n = 0 THEN UpdateExisting(W, Splice(cols, i), i + 1, coord)
             ELSE LET W1 == IF n >= 5
                            THEN StabilityBonus(ShareResources(W, k), W.colony[k].members, 1)
                            ELSE W
                      W2 == IF n >= 8 /\ k \in coord
                            THEN CoordinateReproduction(W1, W1.colony[k].members, 1)
                            ELSE W1
                  IN  UpdateExisting(W2, cols, i + 1, coord)

\* this.cells.forEach(cell => ...) of updateColonies: register new colonies
RECURSIVE RegisterColonies(_, _, _, _)
RegisterColonies(W, list, cols, i) ==
    IF i > Len(list) THEN cols
    ELSE LET k == W.cell[list[i]].colony IN
         RegisterColonies(W, list,
                          IF k # NoColony /\ ~Includes(cols, k) THEN Append(cols, k) ELSE cols,
                          i + 1)

\* cell.js exports Cell and Virus only (line 2806), so module.Colony of the
\* dynamic import is undefined
ModuleExportsColony == FALSE

\* encourageColonyFormation, with the callback of import().then applied;
\* near is the set of loners within 80 of the founder
EncourageColonyFormation(W, founder, near) ==
    IF Cardinality(near) >= 2 /\ ModuleExportsColony /\ W.cell[founder].colony = NoColony
    THEN LET a  == CHOOSE x \in near : TRUE
             b  == CHOOSE x \in near \ {a} : TRUE
             k  == Len(W.colony) + 1
             W1 == ColonyConstructor(W, founder)
             W2 == IF W1.cell[a].colony = NoColony THEN AddMember(W1, k, a, founder) ELSE W1
         IN  IF W2.cell[b].colony = NoColony THEN AddMember(W2, k, b, founder) ELSE W2
    ELSE W

\* updateColonies: the result is [W, colonies]
UpdateColonies(W, list, cols, coord) ==
    LET r      == UpdateExisting(W, cols, 1, coord)
        loners == {c \in Range(list) : r.W.cell[c].colony = NoColony}
        W1     == IF Cardinality(loners) >= 3
                  THEN LET f == CHOOSE x \in loners : TRUE
                       IN  EncourageColonyFormation(r.W, f, loners \ {f})
                  ELSE r.W
    IN  [W |-> W1, colonies |-> RegisterColonies(r.W, list, r.colonies, 1)]

(***************************************************************************)
(* Virus (src/js/cell.js 2624-2804) and the virus phase of the simulation  *)
(* (src/unnamed/part_000 1575-1606).  The cooldowns and the age limit are  *)
(* scaled down: 3 for 180, 2 for 120 and 16 for 2000 ticks.                *)
(***************************************************************************)
MaxInfections == 5           \* Virus.maxInfections
SuccessCooldown == 3         \* infectionCooldown after a successful infection
ResistCooldown == 2          \* infectionCooldown after a resisted infection
VirusMaxAge == 16            \* age above which Virus.update kills the virus

\* new Virus(x, y): health 20..40, energy 30..50, size 3..7; id numbers the
\* Virus objects in the order of their construction
VirusConstructor(id) ==
    [id |-> id, health |-> 3000, energy |-> 4000, size |-> 500, age |-> 0,
     infectionCooldown |-> 0, infectionsCount |-> 0]

\* Cell.calculateEnergyDrain for a juvenile star with normal metabolism
VirusEnergyDrain(v) == ((10 + v.size \div 100) * 96) \div 100

\* the filter of seekHostCells, apart from the distance test
PotentialHosts(W, list) ==
    { c \in Range(list) : /\ ~W.cell[c].isVirus
                          /\ ~W.cell[c].isInfected
                          /\ W.cell[c].health * 10 > 3 * W.cell[c].maxHealth }

\* fault variant of infectCell: the cooldown is not tested
InfectCell_noCooldown(v, c, resists) ==
    IF c.isVirus \/ c.isInfected
    THEN [virus |-> v, cell |-> c, attempted |-> FALSE, result |-> FALSE]
    ELSE IF resists
    THEN [virus |-> [v EXCEPT !.infectionCooldown = ResistCooldown], cell |-> c,
          attempted |-> TRUE, result |-> FALSE]
    ELSE [virus |-> [v EXCEPT !.infectionsCount = @ + 1,
                              !.infectionCooldown = SuccessCooldown,
                              !.energy = @ + 1000],
          cell |-> [c EXCEPT !.isInfected = TRUE],
          attempted |-> TRUE, result |-> TRUE]

\* Virus.infectCell(cell); resists is the outcome of the resistance roll.
\* The result is [virus, cell, attempted, result]: attempted tells whether
\* the call got as far as the roll, result is the value returned.
InfectCell(v, c, resists) ==
    IF c.isVirus \/ c.isInfected \/ v.infectionCooldown > 0
    THEN [virus |-> v, cell |-> c, attempted |-> FALSE, result |-> FALSE]
    ELSE IF resists
    THEN [virus |-> [v EXCEPT !.infectionCooldown = ResistCooldown], cell |-> c,
          attempted |-> TRUE, result |-> FALSE]
    ELSE [virus |-> [v EXCEPT !.infectionsCount = @ + 1,
                              !.infectionCooldown = SuccessCooldown,
                              !.energy = @ + 1000],
          cell |-> [c EXCEPT !.isInfected = TRUE],
          attempted |-> TRUE, result |-> TRUE]

\* Virus.seekHostCells: near tells whether a potential host is within the
\* infection radius.  With one, the call of this.moveToward (line 2713; the
\* method of Cell is moveTowards) raises a TypeError before infectCell.
SeekHostCellsThrows(v, near) == v.infectionCooldown = 0 /\ near

\* Virus.update: the result is [virus, threw].  The method has no return
\* statement: a caller gets undefined.
VirusUpdate(v, near) ==
    LET v1 == [v EXCEPT !.age = @ + 1, !.energy = @ - VirusEnergyDrain(v)]
        v2 == IF v1.infectionCooldown > 0 THEN [v1 EXCEPT !.infectionCooldown = @ - 1] ELSE v1
        v3 == IF v2.infectionsCount >= MaxInfections \/ v2.age > VirusMaxAge
              THEN [v2 EXCEPT !.health = 0] ELSE v2
    IN  [virus |-> v3, threw |-> SeekHostCellsThrows(v3, near)]

\* the value updateViruses gets from virus.update(...), as a truth value
VirusUpdateReturn == FALSE

\* updateViruses from index i on: the result is [viruses, dead, threw], dead
\* being the local deadViruses.  near is the set of indexes of the viruses
\* that have a potential host within their infection radius.
RECURSIVE UpdateEachVirus(_, _, _, _)
UpdateEachVirus(vs, dead, near, i) ==
    IF i > Len(vs) THEN [viruses |-> vs, dead |-> dead, threw |-> FALSE]
    ELSE LET r == VirusUpdate(vs[i], i \in near) IN
         IF r.threw
         THEN [viruses |-> [vs EXCEPT ![i] = r.virus], dead |-> dead, threw |-> TRUE]
         ELSE UpdateEachVirus([vs EXCEPT ![i] = r.virus],
                              IF ~VirusUpdateReturn \/ r.virus.health <= 0
                              THEN Append(dead, i) ELSE dead,
                              near, i + 1)

\* deadViruses.reverse().forEach(index => this.viruses.splice(index, 1))
RECURSIVE SpliceViruses(_, _, _)
SpliceViruses(vs, dead, i) ==
    IF i = 0 THEN vs ELSE SpliceViruses(Splice(vs, dead[i]), dead, i - 1)

\* updateViruses: the result is [viruses, threw]
UpdateViruses(vs, near) ==
    LET r == UpdateEachVirus(vs, <<>>, near, 1) IN
    IF r.threw THEN [viruses |-> r.viruses, threw |-> TRUE]
    ELSE [viruses |-> SpliceViruses(r.viruses, r.dead, Len(r.dead)), threw |-> FALSE]

\* spawnViruses: spawn is the outcome of the virusSpawnRate roll, id the
\* number of the Virus object it constructs
SpawnViruses(vs, n, spawn, id) ==
    IF Len(vs) >= MaxViruses THEN vs
    ELSE IF n < VirusMinCells THEN vs
    ELSE IF spawn THEN Append(vs, VirusConstructor(id))
    ELSE vs

(***************************************************************************)
(* Simulation.updateSingleStep (src/unnamed/part_000 1471-1573), one       *)
(* action per statement group; the cells.forEach loop steps once per cell. *)
(***************************************************************************)
AppendPhase(l, p) == IF Len(l) > 0 /\ l[Len(l)] = p THEN l ELSE Append(l, p)

\* reset(): settings, spawnInitialCells, empty colonies and viruses
Init ==
    /\ cell \in [1..InitialCells -> StartCells]
    /\ colony = <<>>
    /\ cells = [i \in 1..InitialCells |-> i]
    /\ colonies = <<>>
    /\ food = InitialFood
    /\ spawnCooldown = 0
    /\ viruses = <<>>
    /\ tick = 0
    /\ updates = 0
    /\ extinctions = 0
    /\ settings = [initialCells |-> InitialCells, minPopulation |-> MinPopulation,
                   maxPopulation |-> MaxPopulation, maxFood |-> MaxFoodModel]
    /\ pressure = [temp |-> 0, toxicity |-> 0, radiation |-> 0]
    /\ pc = "idle"
    /\ idx = 1
    /\ loopLen = 0
    /\ deadCells = <<>>
    /\ newCells = <<>>
    /\ raised = FALSE
    /\ log = <<>>
    /\ calls = {}
    /\ updated = {}
    /\ born = {}
    /\ removed = {}
    /\ zeroed = {}
    /\ entered = -1

\* lines 1472-1479: tick++, environment.update()
BeginTick ==
    /\ pc = "idle"
    /\ updates < MaxUpdates
    /\ tick' = tick + 1
    /\ pressure' \in Pressures
    /\ log' = <<"environment">>
    /\ calls' = {}
    /\ updated' = {}
    /\ born' = {}
    /\ removed' = {}
    /\ zeroed' = {}
    /\ entered' = -1
    /\ pc' = "food"
    /\ UNCHANGED <<updates, spawnCooldown, cell, colony, cells, colonies, food, viruses, extinctions,
                   settings, idx, loopLen, deadCells, newCells, raised>>

\* lines 1482-1487: updateFoodSystem, which runs FoodManager.update (the
\* 0.3% abundance event is left out)
FoodStep ==
    /\ pc = "food"
    /\ food' = FoodManagerUpdate(food, spawnCooldown, settings.maxFood).food
    /\ spawnCooldown' = FoodManagerUpdate(food, spawnCooldown, settings.maxFood).spawnCooldown
    /\ deadCells' = <<>>
    /\ newCells' = <<>>
    /\ idx' = 1
    /\ loopLen' = Len(cells)
    /\ log' = AppendPhase(log, "food")
    /\ pc' = "cells"
    /\ UNCHANGED <<entered, updates, cell, colony, cells, colonies, viruses, tick, extinctions,
                   settings, pressure, raised, calls, updated, born, removed, zeroed>>

\* The random outcomes and distance tests of one Cell.update call of c.
\* A roll the call does not reach is given its losing value only.
UpdateRolls(W, list, c) ==
    LET me     == W.cell[c]
        loners == {o \in BondCandidates(W, list, c) : W.cell[o].colony = NoColony}
        formed == me.colony # NoColony /\ Len(W.colony[me.colony].members) > 1
        quiet  == [fuse |-> NoCell, split |-> FALSE, gate |-> FALSE, found |-> NoCell,
                   invite |-> NoCell, dist |-> "mid"]
        abilities ==
            [fuse   : IF me.specialAbility = "fusion"
                      THEN {NoCell} \cup FusionCandidates(W, list, c) ELSE {NoCell},
             split  : IF me.specialAbility = "splitting" THEN BOOLEAN ELSE {FALSE},
             gate : {FALSE}, found : {NoCell}, invite : {NoCell}, dist : {"mid"}]
        social ==
            [fuse   : {NoCell}, split : {FALSE},
             gate   : {TRUE},
             found  : IF me.colony = NoColony /\ Len(W.colony) < MaxColonies
                      THEN {NoCell} \cup loners ELSE {NoCell},
             invite : IF me.isColonyFounder \/ me.colony = NoColony
                      THEN {NoCell} \cup loners ELSE {NoCell},
             dist   : {"far", "mid", "close"}]
    IN  { [a EXCEPT !.gate = s.gate, !.found = s.found, !.invite = s.invite, !.dist = s.dist] :
            a \in abilities,
            s \in IF BondCandidates(W, list, c) = {} THEN {quiet}
                  ELSE IF formed THEN {quiet} \cup social
                  ELSE social }

\* lines 1490-1538: one callback of this.cells.forEach
CellStep ==
    /\ pc = "cells"
    /\ idx <= loopLen
    /\ updates < MaxUpdates
    /\ updates' = updates + 1
    /\ LET c  == cells[idx]
           W1 == SimEnvironmentalEffects([cell |-> cell, colony |-> colony], c, pressure.temp)
       IN  \E r \in UpdateRolls(W1, cells, c) :
             LET u == CellUpdate(W1, cells, c, r) IN
             IF ~u.alive \/ u.W.cell[c].health <= 0
             THEN /\ cell' = u.W.cell
                  /\ colony' = u.W.colony
                  /\ deadCells' = Append(deadCells, [cell |-> c, index |-> idx])
                  /\ log' = AppendPhase(log, "update")
                  /\ zeroed' = zeroed \cup Zeroes(u.W, Range(cells))
                  /\ UNCHANGED <<cells, food, newCells, calls, born>>
             ELSE \E eats \in (IF food > 0 THEN BOOLEAN ELSE {FALSE}),
                     coll \in SUBSET (Range(cells) \ {c}) :
                    LET W2  == IF eats THEN Eat(u.W, c) ELSE u.W
                        W3  == InteractAll(W2, cells, c, coll, 1)
                        rep == W3.cell[c].reproduced
                    IN  \E child   \in (IF rep THEN SpawnCells ELSE {CellConstructor(0, 0, 0, "", "")}),
                           inherit \in (IF rep /\ W3.cell[c].colony # NoColony THEN BOOLEAN ELSE {FALSE}),
                           success \in (IF rep /\ CanFailReproduction(Len(cells), settings.maxPopulation)
                                        THEN BOOLEAN ELSE {TRUE}) :
                          LET h == HandleReproduction(W3, cells, newCells, c, child, inherit, success) IN
                          /\ rep => Len(cell) < MaxObjects
                          /\ cell' = h.W.cell
                          /\ colony' = h.W.colony
                          /\ cells' = h.cells
                          /\ newCells' = h.newCells
                          /\ born' = born \cup h.born
                          /\ food' = IF eats THEN food - 1 ELSE food
                          /\ calls' = calls \cup InteractionCalls(c, cells, coll, [i \in DOMAIN deadCells |-> deadCells[i].cell])
                          /\ log' = LET l1 == AppendPhase(log, "update")
                                        l2 == IF coll # {} THEN AppendPhase(l1, "interact") ELSE l1
                                    IN  IF rep THEN AppendPhase(l2, "reproduce") ELSE l2
                          /\ zeroed' = zeroed \cup Zeroes(h.W, Range(cells))
                          /\ UNCHANGED deadCells
    /\ updated' = updated \cup {cells[idx]}
    /\ idx' = idx + 1
    /\ UNCHANGED <<entered, spawnCooldown, colonies, viruses, tick, extinctions, settings, pressure, pc,
                   loopLen, raised, removed>>

\* deadCells.reverse().forEach: splice(index, 1) from the highest index down
RECURSIVE SpliceDead(_, _, _)
SpliceDead(list, dead, i) ==
    IF i = 0 THEN list
    ELSE SpliceDead(Splice(list, dead[i].index), dead, i - 1)

RECURSIVE CorpseFood(_, _, _, _)
CorpseFood(W, count, dead, i) ==
    IF i = 0 THEN count
    ELSE CorpseFood(W, SpawnFromDeath(count, W.cell[dead[i].cell].size), dead, i - 1)

\* lines 1541-1544
RemoveDead ==
    /\ pc = "cells"
    /\ idx > loopLen
    /\ cells' = SpliceDead(cells, deadCells, Len(deadCells))
    /\ food' = CorpseFood([cell |-> cell, colony |-> colony], food, deadCells, Len(deadCells))
    /\ removed' = {deadCells[i].cell : i \in DOMAIN deadCells}
    /\ log' = AppendPhase(log, "remove")
    /\ pc' = "add"
    /\ UNCHANGED <<entered, updates, spawnCooldown, cell, colony, colonies, viruses, tick, extinctions, settings,
                   pressure, idx, loopLen, deadCells, newCells, raised, calls,
                   updated, born, zeroed>>

\* line 1547: this.cells.push(...newCells)
AddNew ==
    /\ pc = "add"
    /\ cells' = cells \o newCells
    /\ log' = AppendPhase(log, "add")
    /\ pc' = "selection"
    /\ UNCHANGED <<entered, updates, spawnCooldown, cell, colony, colonies, food, viruses, tick, extinctions,
                   settings, pressure, idx, loopLen, deadCells, newCells, raised,
                   calls, updated, born, removed, zeroed>>

\* applyNaturalSelection applied to the current state: the result is [cells, food]
ApplyNaturalSelection(R) ==
    RemoveSelected([cell |-> cell, colony |-> colony], cells, food, R)

\* lines 1550-1552
NaturalSelection ==
    /\ pc = "selection"
    /\ IF 10 * Len(cells) > 8 * settings.maxPopulation
       THEN \E R \in SelectionRemovals([cell |-> cell, colony |-> colony], cells, food,
                                       settings, pressure, Len(viruses)) :
              /\ cells' = ApplyNaturalSelection(R).cells
              /\ food' = ApplyNaturalSelection(R).food
              /\ log' = AppendPhase(log, "selection")
              /\ entered' = Len(cells)
       ELSE UNCHANGED <<cells, food, log, entered>>
    /\ pc' = "viruses"
    /\ UNCHANGED <<updates, spawnCooldown, cell, colony, colonies, viruses, tick, extinctions, settings,
                   pressure, idx, loopLen, deadCells, newCells, raised, calls, updated,
                   born, removed, zeroed>>

\* lines 1555-1558: updateViruses and spawnViruses.  A TypeError raised by
\* Virus.update leaves updateSingleStep at that point.
Viruses ==
    /\ pc = "viruses"
    /\ log' = AppendPhase(log, "viruses")
    /\ \E near \in (IF PotentialHosts([cell |-> cell, colony |-> colony], cells) = {}
                    THEN {{}} ELSE SUBSET DOMAIN viruses),
          spawn \in BOOLEAN :
         LET r == UpdateViruses(viruses, near) IN
         IF r.threw
         THEN /\ viruses' = r.viruses
              /\ raised' = TRUE
              /\ pc' = "aborted"
         ELSE /\ viruses' = SpawnViruses(r.viruses, Len(cells), spawn, 1)
              /\ pc' = "colonies"
              /\ UNCHANGED raised
    /\ UNCHANGED <<entered, updates, spawnCooldown, cell, colony, cells, colonies, food, tick, extinctions, settings,
                   pressure, idx, loopLen, deadCells, newCells, calls, updated,
                   born, removed, zeroed>>

\* line 1561
Colonies ==
    /\ pc = "colonies"
    /\ \E coord \in SUBSET {k \in Range(colonies) : Len(colony[k].members) >= 8} :
         LET r == UpdateColonies([cell |-> cell, colony |-> colony], cells, colonies, coord) IN
         /\ cell' = r.W.cell
         /\ colony' = r.W.colony
         /\ colonies' = r.colonies
         /\ zeroed' = zeroed \cup Zeroes(r.W, Range(cells))
    /\ log' = AppendPhase(log, "colonies")
    /\ pc' = "maintain"
    /\ UNCHANGED <<entered, updates, spawnCooldown, cells, food, viruses, tick, extinctions, settings, pressure, idx,
                   loopLen, deadCells, newCells, raised, calls, updated, born, removed>>

\* line 1564
Maintain ==
    /\ pc = "maintain"
    /\ Len(cell) + SpawnCount(Len(cells), settings) <= MaxObjects
    /\ \E drawn \in [1..SpawnCount(Len(cells), settings) -> SpawnCells] :
         LET r == MaintainPopulation([cell |-> cell, colony |-> colony], cells,
                                     extinctions, settings, drawn) IN
         /\ cell' = r.W.cell
         /\ colony' = r.W.colony
         /\ cells' = r.cells
         /\ extinctions' = r.extinctions
    /\ log' = AppendPhase(log, "maintain")
    /\ pc' = "stats"
    /\ UNCHANGED <<entered, updates, spawnCooldown, colonies, food, viruses, tick, settings, pressure, idx, loopLen,
                   deadCells, newCells, raised, calls, updated, born, removed, zeroed>>

\* lines 1566-1572: generation and updateEcosystemStats
Stats ==
    /\ pc = "stats"
    /\ log' = AppendPhase(log, "stats")
    /\ pc' = "idle"
    /\ UNCHANGED <<entered, updates, spawnCooldown, cell, colony, cells, colonies, food, viruses, tick, extinctions,
                   settings, pressure, idx, loopLen, deadCells, newCells, raised,
                   calls, updated, born, removed, zeroed>>

Next ==
    \/ BeginTick
    \/ FoodStep
    \/ CellStep
    \/ RemoveDead
    \/ AddNew
    \/ NaturalSelection
    \/ Viruses
    \/ Colonies
    \/ Maintain
    \/ Stats

Spec == Init /\ [][Next]_vars

(***************************************************************************)
(* applyNaturalSelection on its own: the populations, settings, food       *)
(* counts and pressures it can be entered with, from line 1550.            *)
(***************************************************************************)
NSMaxCells == 10       \* largest population explored

\* food counts: none, plenty
NSFoodCounts == {0, 30}

\* viruses.length: none, an outbreak (settings.maxViruses raised above 10)
NSVirusCounts == {0, 11}

InitNS ==
    /\ \E n \in 0..NSMaxCells :
         /\ cell = [i \in 1..n |-> CellConstructor(10000, 7500, 1000, "swarm", "none")]
         /\ cells = [i \in 1..n |-> i]
    /\ colony = <<>>
    /\ colonies = <<>>
    /\ food \in NSFoodCounts
    /\ spawnCooldown = 0
    /\ \E v \in NSVirusCounts : viruses = [i \in 1..v |-> VirusConstructor(i)]
    /\ tick = 1
    /\ updates = 0
    /\ extinctions = 0
    /\ settings \in [initialCells : {InitialCells}, minPopulation : 0..NSMaxCells,
                     maxPopulation : {MaxPopulation, 2 * NSMaxCells}, maxFood : {MaxFoodModel}]
    /\ pressure \in [temp : {0}, toxicity : {0, 70}, radiation : {0, 50}]
    /\ pc = "selection"
    /\ idx = 1
    /\ loopLen = 0
    /\ deadCells = <<>>
    /\ newCells = <<>>
    /\ raised = FALSE
    /\ log = <<"environment", "food", "remove", "add">>
    /\ calls = {}
    /\ updated = {}
    /\ born = {}
    /\ removed = {}
    /\ zeroed = {}
    /\ entered = -1

NextNS == NaturalSelection

SpecNS == InitNS /\ [][NextNS]_vars

(***************************************************************************)
(* The colony graph on its own: the operations of src/js/cell.js and the   *)
(* simulation that read or write members, bonds and colony references,     *)
(* called in any order on the cells of a fresh simulation.                 *)
(***************************************************************************)
ColonyObjects == 3     \* Cell objects constructed in one behaviour
MaxDecay == 1          \* decay steps explored per bond

\* no bond has decayed further than the exploration follows it
WithinDecay(W) ==
    \A k \in DOMAIN W.colony : \A b \in W.colony[k].bonds : b.strength >= 1000 - 15 * MaxDecay

InitColony ==
    /\ cell = [i \in 1..InitialCells |-> CellConstructor(9000, 7000, 800, "armor", "fusion")]
    /\ colony = <<>>
    /\ cells = [i \in 1..InitialCells |-> i]
    /\ colonies = <<>>
    /\ food = InitialFood
    /\ spawnCooldown = 0
    /\ viruses = <<>>
    /\ tick = 0
    /\ updates = 0
    /\ extinctions = 0
    /\ settings = [initialCells |-> InitialCells, minPopulation |-> MinPopulation,
                   maxPopulation |-> MaxPopulation, maxFood |-> MaxFoodModel]
    /\ pressure = [temp |-> 0, toxicity |-> 0, radiation |-> 0]
    /\ pc = "api"
    /\ idx = 1
    /\ loopLen = 0
    /\ deadCells = <<>>
    /\ newCells = <<>>
    /\ raised = FALSE
    /\ log = <<>>
    /\ calls = {}
    /\ updated = {}
    /\ born = {}
    /\ removed = {}
    /\ zeroed = {}
    /\ entered = -1

\* Cell.updateColonyBehavior(cells) of a listed cell
ColonyBehavior ==
    /\ \E c \in Range(cells) :
         \E r \in UpdateRolls([cell |-> cell, colony |-> colony], cells, c) :
           LET W == UpdateColonyBehavior([cell |-> cell, colony |-> colony], cells, c, r) IN
           /\ WithinDecay(W)
           /\ cell' = W.cell
           /\ colony' = W.colony
    /\ UNCHANGED <<cells, colonies, food, spawnCooldown, viruses, tick, updates, extinctions,
                   settings, pressure, pc, idx, loopLen, deadCells, newCells, raised,
                   log, calls, updated, born, removed, zeroed, entered>>

\* createOffspring(parent) and the push of the offspring into cells
Offspring ==
    /\ Len(cell) < ColonyObjects
    /\ \E parent \in Range(cells), child \in SpawnCells, inherit \in BOOLEAN :
         LET W == CreateOffspring([cell |-> cell, colony |-> colony], parent, child, inherit) IN
         /\ cell' = W.cell
         /\ colony' = W.colony
         /\ cells' = Append(cells, Len(cell) + 1)
    /\ UNCHANGED <<born, colonies, food, spawnCooldown, viruses, tick, updates, extinctions,
                   settings, pressure, pc, idx, loopLen, deadCells, newCells, raised,
                   log, calls, updated, removed, zeroed, entered>>

\* colony.removeMember(cell) for a member of the colony
MemberRemoval ==
    /\ \E k \in DOMAIN colony :
         \E c \in Range(colony[k].members) :
           LET r == RemoveMember([cell |-> cell, colony |-> colony], k, c) IN
           /\ cell' = r.W.cell
           /\ colony' = r.W.colony
           /\ raised' = (raised \/ r.threw)
    /\ UNCHANGED <<cells, colonies, food, spawnCooldown, viruses, tick, updates,
                   extinctions, settings, pressure, pc, idx, loopLen, deadCells,
                   newCells, log, calls, updated, born, removed, zeroed, entered>>

\* a dead cell leaves the list: this.cells.splice(index, 1)
CellDeath ==
    /\ \E i \in DOMAIN cells :
         /\ cells' = Splice(cells, i)
    /\ UNCHANGED <<removed, cell, colony, colonies, food, spawnCooldown, viruses, tick, updates,
                   extinctions, settings, pressure, pc, idx, loopLen, deadCells,
                   newCells, raised, log, calls, updated, born, zeroed, entered>>

\* updateColonies()
ColonyUpkeep ==
    /\ \E coord \in SUBSET {k \in Range(colonies) : Len(colony[k].members) >= 8} :
         LET r == UpdateColonies([cell |-> cell, colony |-> colony], cells, colonies, coord) IN
         /\ cell' = r.W.cell
         /\ colony' = r.W.colony
         /\ colonies' = r.colonies
    /\ UNCHANGED <<cells, food, spawnCooldown, viruses, tick, updates, extinctions,
                   settings, pressure, pc, idx, loopLen, deadCells, newCells, raised,
                   log, calls, updated, born, removed, zeroed, entered>>

NextColony ==
    \/ ColonyBehavior
    \/ Offspring
    \/ MemberRemoval
    \/ CellDeath
    \/ ColonyUpkeep

SpecColony == InitColony /\ [][NextColony]_vars

(***************************************************************************)
(* Variables a specification of one class leaves at their reset() values.  *)
(***************************************************************************)
simVars == <<colonies, food, spawnCooldown, tick, extinctions, settings, pressure, idx,
             loopLen, deadCells, newCells, calls, updated, born, removed, zeroed, entered>>

\* reset() with no tick run yet
IdleSimulation ==
    /\ colonies = <<>>
    /\ food = InitialFood
    /\ spawnCooldown = 0
    /\ tick = 0
    /\ extinctions = 0
    /\ settings = [initialCells |-> InitialCells, minPopulation |-> MinPopulation,
                   maxPopulation |-> MaxPopulation, maxFood |-> MaxFoodModel]
    /\ pressure = [temp |-> 0, toxicity |-> 0, radiation |-> 0]
    /\ idx = 1
    /\ loopLen = 0
    /\ deadCells = <<>>
    /\ newCells = <<>>
    /\ calls = {}
    /\ updated = {}
    /\ born = {}
    /\ removed = {}
    /\ zeroed = {}
    /\ entered = -1

(***************************************************************************)
(* The Colony class called directly (src/js/cell.js 37-90): constructor,   *)
(* addMember and removeMember in any order on the cells of reset().  calls *)
(* holds the latest addMember call: the colony, the cell, whether the cell *)
(* was a member of a different colony, and the value returned.             *)
(***************************************************************************)
\* new Colony(founder) for a cell that has no colony
ColonyConstruction ==
    /\ Len(colony) < MaxColonies
    /\ \E a \in Range(cells) :
         /\ cell[a].colony = NoColony
         /\ LET W == ColonyConstructor([cell |-> cell, colony |-> colony], a) IN
            cell' = W.cell /\ colony' = W.colony
    /\ UNCHANGED <<cells, viruses, updates, raised, log, pc, simVars>>

\* colony.addMember(cell, bondWith); it returns true exactly when it went
\* past its two early returns, which is when it pushed the cell
AddMemberCall ==
    /\ \E k \in DOMAIN colony, c \in Range(cells), bondWith \in Range(cells) \cup {NoCell} :
         LET W == AddMember([cell |-> cell, colony |-> colony], k, c, bondWith) IN
         /\ cell' = W.cell
         /\ colony' = W.colony
         /\ calls' =
                {[colony |-> k, cell |-> c,
                  elsewhere |-> \E j \in DOMAIN colony : j # k /\ Includes(colony[j].members, c),
                  returned |-> Len(W.colony[k].members) > Len(colony[k].members)]}
    /\ UNCHANGED <<cells, viruses, updates, raised, log, pc>>
    /\ UNCHANGED <<colonies, food, spawnCooldown, tick, extinctions, settings, pressure, idx,
                   loopLen, deadCells, newCells, updated, born, removed, zeroed, entered>>

NextColonyApi ==
    \/ ColonyConstruction
    \/ AddMemberCall
    \/ MemberRemoval

SpecColonyApi == InitColony /\ [][NextColonyApi]_vars

(***************************************************************************)
(* Cell.considerReproduction (src/js/cell.js 1601-1670) and its caller     *)
(* Cell.makeDecisions, on one cell.  The cooldown is kept as an integer in *)
(* 1/1000000 of a tick: a base of 400, 180 or 100 ticks times six factors  *)
(* in tenths.  Energy thresholds are in 1/1000.  log holds one record per  *)
(* successful check, updates counts the checks made at the current age.    *)
(***************************************************************************)
ReproStartAge == 299   \* age of the cell when the exploration starts
ReproMaxAge == 312     \* age up to which the exploration follows the cell
ReproCalls == 2        \* considerReproduction calls explored at one age

\* reproductionCooldown * 1000000
ReproductionCooldown(c, members) ==
    LET base == IF c.energy * 100 > 95 * c.maxEnergy THEN 100
                ELSE IF c.energy * 100 > 85 * c.maxEnergy THEN 180
                ELSE 400
        f1 == IF c.colony # NoColony /\ members < 15 THEN 6 ELSE 10
        f2 == IF c.colonyRole = "sedentary" THEN 4 ELSE 10
        f3 == IF c.health * 10 > 9 * c.maxHealth THEN 7 ELSE 10
        f4 == IF c.lifestage = "adult" THEN 6 ELSE 10
        f5 == IF c.lifestage = "elder" THEN 13 ELSE 10
        f6 == IF c.lifestage = "adult" THEN 7 ELSE 10
    IN  base * f1 * f2 * f3 * f4 * f5 * f6

\* energyThreshold * 1000
EnergyThreshold(c, members) ==
    (IF c.energy * 100 > 95 * c.maxEnergy THEN 850
     ELSE IF c.energy * 100 > 85 * c.maxEnergy THEN 800
     ELSE 750)
    - (IF c.colony # NoColony /\ members < 15 THEN 50 ELSE 0)
    - (IF c.colonyRole = "sedentary" THEN 100 ELSE 0)

\* the condition of line 1653
ReadyToReproduce(c, members) ==
    /\ (c.age - c.lastReproduction) * 1000000 > ReproductionCooldown(c, members)
    /\ c.energy * 1000 > EnergyThreshold(c, members) * c.maxEnergy
    /\ c.health * 2 > c.maxHealth

\* fault variant of considerReproduction: lastReproduction is not stamped
ConsiderReproduction_noStamp(c, members) ==
    IF ReadyToReproduce(c, members)
    THEN [c EXCEPT !.reproduced = TRUE,
                   !.energy = IF c.energy * 100 > 95 * c.maxEnergy
                              THEN (@ * 7) \div 10 ELSE (@ * 6) \div 10]
    ELSE c

\* Cell.considerReproduction; handleRoleBasedReproduction gets null from
\* Cell.createOffspring and does nothing
ConsiderReproduction(c, members) ==
    IF ReadyToReproduce(c, members)
    THEN [c EXCEPT !.reproduced = TRUE,
                   !.lastReproduction = c.age,
                   !.energy = IF c.energy * 100 > 95 * c.maxEnergy
                              THEN (@ * 7) \div 10 ELSE (@ * 6) \div 10]
    ELSE c

\* Cell.makeDecisions, reproduction branch: energyRatio > 0.8 and age > 300
MakeDecisions(c, members) ==
    IF c.energy * 10 >= 4 * c.maxEnergy /\ c.energy * 10 > 8 * c.maxEnergy /\ c.age > 300
    THEN ConsiderReproduction(c, members)
    ELSE c

\* a cell with the fields considerReproduction reads
ReproCell(e, h, stage, role, k) ==
    [age |-> ReproStartAge, lastReproduction |-> 0, reproduced |-> FALSE,
     energy |-> e, maxEnergy |-> 8000, health |-> h, maxHealth |-> 10000,
     size |-> 800, lifestage |-> stage, colonyRole |-> role, colony |-> k]

ReproMembers == IF colony = <<>> THEN 0 ELSE Len(colony[1].members)

\* the record of a successful check made on c
ReproSuccess(c) ==
    [age |-> c.age, cooldown |-> ReproductionCooldown(c, ReproMembers), energy |-> c.energy]

InitRepro ==
    /\ \E e \in {8000, 10000}, h \in {6000, 10000}, stage \in {"juvenile", "adult"},
          role \in {"sedentary", "adventurer"}, founder \in BOOLEAN :
         /\ cell = <<ReproCell(e, h, stage, role, IF founder THEN 1 ELSE NoColony)>>
         /\ colony = IF founder THEN <<[members |-> <<1>>, founder |-> 1, bonds |-> {}, sharedEnergy |-> 0]>>
                     ELSE <<>>
    /\ cells = <<1>>
    /\ viruses = <<>>
    /\ updates = 0
    /\ raised = FALSE
    /\ log = <<>>
    /\ pc = "api"
    /\ IdleSimulation

\* Cell.update of the cell: age++, metabolism, makeDecisions
ReproUpdate ==
    /\ cell[1].age < ReproMaxAge
    /\ LET c1 == [cell[1] EXCEPT !.age = @ + 1, !.energy = @ - CalculateEnergyDrain(cell[1])]
           c2 == MakeDecisions(c1, ReproMembers)
       IN  /\ ~IsDead(c1)
           /\ cell' = [cell EXCEPT ![1] = c2]
           /\ log' = IF c2.energy # c1.energy THEN Append(log, ReproSuccess(c1)) ELSE log
           /\ updates' = IF c1.energy * 10 > 8 * c1.maxEnergy /\ c1.age > 300 THEN 1 ELSE 0
    /\ UNCHANGED <<colony, cells, viruses, raised, pc>>
    /\ UNCHANGED simVars

\* one more considerReproduction() at the same age
ConsiderReproductionCall ==
    /\ updates < ReproCalls
    /\ LET c2 == ConsiderReproduction(cell[1], ReproMembers) IN
       /\ cell' = [cell EXCEPT ![1] = c2]
       /\ log' = IF c2.energy # cell[1].energy THEN Append(log, ReproSuccess(cell[1])) ELSE log
    /\ updates' = updates + 1
    /\ UNCHANGED <<colony, cells, viruses, raised, pc>>
    /\ UNCHANGED simVars

\* the simulation between two updates: the flag is consumed (line 1535) and
\* the cell eats (Cell.eat)
ReproFeed ==
    /\ cell' = [cell EXCEPT ![1].reproduced = FALSE,
                            ![1].energy = Min(cell[1].maxEnergy, @ + FoodValue)]
    /\ cell' # cell
    /\ UNCHANGED <<colony, cells, viruses, updates, raised, log, pc>>
    /\ UNCHANGED simVars

NextRepro ==
    \/ ReproUpdate
    \/ ConsiderReproductionCall
    \/ ReproFeed

SpecRepro == InitRepro /\ [][NextRepro]_vars

(***************************************************************************)
(* The Virus class on its own: the simulation's updateViruses and          *)
(* spawnViruses, and the methods Virus.update and Virus.infectCell called  *)
(* on a live virus of the list, over a population large enough for viruses *)
(* to spawn.  updates counts the Virus objects constructed; calls holds    *)
(* one record per infectCell call that got as far as the resistance roll.  *)
(***************************************************************************)
VirusObjects == 1      \* Virus objects constructed in one behaviour
HostsInReach == 5      \* cells that come within reach of a virus

\* the population: healthy cells and one cell below 30% of its health
VirusHosts ==
    [i \in 1..VirusMinCells |->
        IF i = 1 THEN [CellConstructor(9000, 7000, 800, "armor", "none") EXCEPT !.health = 2000]
        ELSE CellConstructor(9000, 7000, 800, "armor", "none")]

InitVirus ==
    /\ cell = VirusHosts
    /\ colony = <<>>
    /\ cells = [i \in 1..VirusMinCells |-> i]
    /\ viruses = <<>>
    /\ updates = 0
    /\ raised = FALSE
    /\ log = <<>>
    /\ pc = "api"
    /\ IdleSimulation

\* spawnViruses() with a successful spawn roll
SpawnVirusesStep ==
    /\ updates < VirusObjects
    /\ viruses' = SpawnViruses(viruses, Len(cells), TRUE, updates + 1)
    /\ viruses' # viruses
    /\ updates' = updates + 1
    /\ UNCHANGED <<cell, colony, cells, raised, log, pc>>
    /\ UNCHANGED simVars

\* updateViruses(food, environment); a virus is followed until the update
\* that finds it above the age limit
UpdateVirusesStep ==
    /\ viruses # <<>>
    /\ \A i \in DOMAIN viruses : viruses[i].age <= VirusMaxAge
    /\ \E near \in (IF PotentialHosts([cell |-> cell, colony |-> colony], cells) = {}
                    THEN {{}} ELSE SUBSET DOMAIN viruses) :
         LET r == UpdateViruses(viruses, near) IN
         /\ viruses' = r.viruses
         /\ raised' = (raised \/ r.threw)
    /\ UNCHANGED <<cell, colony, cells, updates, log, pc>>
    /\ UNCHANGED simVars

\* virus.update(cells, food, width, height) on a live virus of the list
VirusUpdateCall ==
    /\ \E i \in DOMAIN viruses :
         /\ viruses[i].health > 0
         /\ \E near \in (IF PotentialHosts([cell |-> cell, colony |-> colony], cells) = {}
                         THEN {FALSE} ELSE BOOLEAN) :
              LET r == VirusUpdate(viruses[i], near) IN
              /\ viruses' = [viruses EXCEPT ![i] = r.virus]
              /\ raised' = (raised \/ r.threw)
    /\ UNCHANGED <<cell, colony, cells, updates, log, pc>>
    /\ UNCHANGED simVars

\* the record of an infectCell(c) call of virus v that reached the roll
InfectionAttempt(v, c, r) ==
    [virus |-> v.id, cooldown |-> v.infectionCooldown, isVirus |-> c.isVirus,
     infected |-> c.isInfected, success |-> r.result,
     nth |-> IF r.result THEN v.infectionsCount + 1 ELSE 0]

\* virus.infectCell(cell) on a live virus of the list and a cell in reach
InfectCellCall ==
    /\ \E i \in DOMAIN viruses, c \in 1..HostsInReach, resists \in BOOLEAN :
         /\ viruses[i].health > 0
         /\ c \in Range(cells)
         /\ LET r == InfectCell(viruses[i], cell[c], resists) IN
            /\ r.attempted
            /\ viruses' = [viruses EXCEPT ![i] = r.virus]
            /\ cell' = [cell EXCEPT ![c] = r.cell]
            /\ calls' = calls \cup {InfectionAttempt(viruses[i], cell[c], r)}
    /\ UNCHANGED <<colony, cells, updates, raised, log, pc>>
    /\ UNCHANGED <<colonies, food, spawnCooldown, tick, extinctions, settings, pressure, idx,
                   loopLen, deadCells, newCells, updated, born, removed, zeroed, entered>>

NextVirus ==
    \/ SpawnVirusesStep
    \/ UpdateVirusesStep
    \/ VirusUpdateCall
    \/ InfectCellCall

SpecVirus == InitVirus /\ [][NextVirus]_vars

(***************************************************************************)
(* Cell.applyDefenseMechanisms (src/js/cell.js 660-761) with the area      *)
(* effects it calls, inside Cell.update and the removal of dead cells by   *)
(* the simulation.  defenseStates fields are in 1/10 of the JavaScript     *)
(* value.  A field the constructor does not create is undefined: it is     *)
(* kept as [defined |-> FALSE]; every comparison with it is false.         *)
(***************************************************************************)
DefenseTicks == 270    \* ticks a behaviour follows the cells for

\* this.defenseStates of the constructor (lines 306-329): no reflectCharge
DefenseStates(size) ==
    [poisonAura |-> 0, regenCooldown |-> 0, camouflageActive |-> 0,
     shieldEnergy |-> 0, electricCharge |-> 0, magneticField |-> 0,
     phaseShift |-> 0, swarmSignal |-> 0,
     explosivePower |-> size \div 20, viralLoad |-> 0,
     reflectCharge |-> [defined |-> FALSE, value |-> 0]]

\* a cell with its defence state
DefenseCell(h, d) ==
    [defenseStates |-> DefenseStates(800)] @@ CellConstructor(h, 7000, 800, d, "none")

\* Cell.explode on the other cells of the list when they are near, each at
\* half the radius: explosivePower * (1 - distance / explosionRadius)
Explode(W, list, c, near) ==
    LET damage == W.cell[c].defenseStates.explosivePower * 5 IN
    [W EXCEPT !.cell = [t \in DOMAIN W.cell |->
        IF near /\ t \in Range(list) \ {c}
        THEN [W.cell[t] EXCEPT !.health = @ - damage]
        ELSE W.cell[t]]]

\* Cell.electricDischarge, targets at half the discharge radius
ElectricDischarge(W, list, c, near) ==
    LET W1 == [W EXCEPT !.cell = [t \in DOMAIN W.cell |->
                   IF near /\ t \in Range(list) \ {c}
                   THEN [W.cell[t] EXCEPT !.health = @ - 750, !.energy = @ - 375]
                   ELSE W.cell[t]]]
    IN  [W1 EXCEPT !.cell[c].defenseStates.electricCharge = 0,
                   !.cell[c].energy = @ - 800]

\* Cell.spreadVirus
SpreadVirus(W, list, c, near) ==
    [W EXCEPT !.cell = [t \in DOMAIN W.cell |->
        IF near /\ t \in Range(list) \ {c}
        THEN [W.cell[t] EXCEPT !.defenseStates.viralLoad = @ + 200,
                               !.health = @ - 200, !.energy = @ - 300]
        ELSE W.cell[t]]]

\* Cell.chargeReflection: undefined < 50 is false
ChargeReflection(W, c) ==
    LET rc == W.cell[c].defenseStates.reflectCharge IN
    IF rc.defined /\ rc.value < 500
    THEN [W EXCEPT !.cell[c].defenseStates.reflectCharge.value = @ + 4,
                   !.cell[c].energy = @ - 2]
    ELSE W

\* Cell.applyDefenseMechanisms: the result is [W, exploded, value]; value is
\* the value returned, false after an explosion and undefined otherwise.
\* r.near: the neighbours are within the radius of the area effect; r.slow:
\* the cell moves slower than 0.5.
ApplyDefenseMechanisms(W, list, c, r) ==
    LET me == W.cell[c]
        ds == me.defenseStates
        Keep(W1) == [W |-> W1, exploded |-> FALSE, value |-> "undefined"]
    IN  CASE me.defenseType = "poison" ->
               Keep([W EXCEPT !.cell[c].defenseStates.poisonAura = Max(0, @ - 10)])
          [] me.defenseType = "camo" ->
               Keep([W EXCEPT !.cell[c].defenseStates.camouflageActive =
                        IF r.slow THEN Min(600, @ + 10) ELSE Max(0, @ - 20)])
          [] me.defenseType = "shield" ->
               Keep([W EXCEPT !.cell[c].defenseStates.shieldEnergy = Min(1000, @ + 5),
                              !.cell[c].energy = IF @ > 500 THEN @ - 10 ELSE @])
          [] me.defenseType = "electric" ->
               Keep(IF ds.electricCharge + 8 > 1000
                    THEN ElectricDischarge(W, list, c, r.near)
                    ELSE [W EXCEPT !.cell[c].defenseStates.electricCharge = @ + 8])
          [] me.defenseType = "magnetic" ->
               Keep([W EXCEPT !.cell[c].defenseStates.magneticField = Min(800, @ + 6)])
          [] me.defenseType = "phase" ->
               Keep([W EXCEPT !.cell[c].defenseStates.phaseShift =
                        IF @ + 3 > 600 THEN 0 ELSE @ + 3])
          [] me.defenseType = "explosive" ->
               LET W1 == [W EXCEPT !.cell[c].defenseStates.explosivePower = @ + 2] IN
               IF me.health * 10 < me.maxHealth * 2
               THEN [W |-> Explode(W1, list, c, r.near), exploded |-> TRUE, value |-> "false"]
               ELSE Keep(W1)
          [] me.defenseType = "viral" ->
               LET W1 == [W EXCEPT !.cell[c].defenseStates.viralLoad = @ + 3] IN
               Keep(IF W1.cell[c].defenseStates.viralLoad > 800
                    THEN [SpreadVirus(W1, list, c, r.near)
                             EXCEPT !.cell[c].defenseStates.viralLoad = 0]
                    ELSE W1)
          [] me.defenseType = "reflect" -> Keep(ChargeReflection(W, c))
          [] OTHER -> Keep(W)

\* Cell.update with its defence step: the result is [W, alive, exploded].
\* The value of applyDefenseMechanisms is not used (line 508).
DefenseUpdate(W, list, c, r) ==
    LET W1 == [W EXCEPT !.cell[c].age = @ + 1,
                        !.cell[c].energy = @ - CalculateEnergyDrain(W.cell[c])]
    IN  IF IsDead(W1.cell[c]) THEN [W |-> W1, alive |-> FALSE, exploded |-> FALSE]
        ELSE LET d == ApplyDefenseMechanisms(W1, list, c, r) IN
             [W |-> d.W, alive |-> TRUE, exploded |-> d.exploded]

\* this.cells.forEach of a tick in which no two cells touch and none eats,
\* from index i on: the result is [W, dead, exploded], dead being the
\* indexes pushed to deadCells and exploded the cells that exploded
RECURSIVE DefenseLoop(_, _, _, _, _, _)
DefenseLoop(W, list, i, r, dead, exploded) ==
    IF i > Len(list) THEN [W |-> W, dead |-> dead, exploded |-> exploded]
    ELSE LET u == DefenseUpdate(W, list, list[i], r) IN
         DefenseLoop(u.W, list, i + 1, r,
                     IF ~u.alive \/ u.W.cell[list[i]].health <= 0
                     THEN Append(dead, [cell |-> list[i], index |-> i]) ELSE dead,
                     IF u.exploded THEN exploded \cup {list[i]} ELSE exploded)

\* the defence types followed, each next to an armoured neighbour; the
\* explosive cell healthy or as a fight left it, the poison cell with the
\* aura a fight gave it
DefenseStarts ==
    { <<DefenseCell(9000, d), DefenseCell(9000, "armor")>> :
        d \in {"camo", "shield", "electric", "magnetic", "phase", "explosive",
               "viral", "reflect"} }
    \cup { <<DefenseCell(1500, "explosive"), DefenseCell(9000, "armor")>>,
           <<[DefenseCell(9000, "poison") EXCEPT !.defenseStates.poisonAura = 1200],
             DefenseCell(9000, "armor")>> }

InitDefense ==
    /\ cell \in DefenseStarts
    /\ colony = <<>>
    /\ cells = <<1, 2>>
    /\ viruses = <<>>
    /\ updates = 0
    /\ raised = FALSE
    /\ log = <<>>
    /\ pc = "api"
    /\ IdleSimulation

\* one updateSingleStep of cells that stay next to each other; calls records
\* the explosions as [cell, tick]
DefenseTick ==
    /\ tick < DefenseTicks
    /\ cells # <<>>
    /\ \E slow \in BOOLEAN :
         LET r == DefenseLoop([cell |-> cell, colony |-> colony], cells, 1,
                              [near |-> TRUE, slow |-> slow], <<>>, {})
         IN  /\ cell' = r.W.cell
             /\ cells' = SpliceDead(cells, r.dead, Len(r.dead))
             /\ food' = CorpseFood(r.W, food, r.dead, Len(r.dead))
             /\ removed' = {r.dead[i].cell : i \in DOMAIN r.dead}
             /\ calls' = calls \cup {[cell |-> c, tick |-> tick + 1] : c \in r.exploded}
    /\ tick' = tick + 1
    /\ UNCHANGED <<colony, viruses, updates, raised, log, pc>>
    /\ UNCHANGED <<colonies, spawnCooldown, extinctions, settings, pressure, idx,
                   loopLen, deadCells, newCells, updated, born, zeroed, entered>>

SpecDefense == InitDefense /\ [][DefenseTick]_vars

(***************************************************************************)
(* Cell.updateLifecycle (src/js/cell.js 529-540) inside Cell.update, on    *)
(* one cell that eats whenever its energy is low.  speed is in 1/100 and   *)
(* visionRange in 1/100.  log records every update that changed the stage  *)
(* or one of the four rescaled traits, with the cell before and after.     *)
(***************************************************************************)
LifeMaxAge == 1502     \* age a behaviour follows the cell to
LifeHungry == 1000     \* energy below which the cell reaches food

\* fault variant of updateLifecycle: the adult branch does not set the stage
UpdateLifecycle_noStage(c) ==
    IF c.age > c.maturityAge /\ c.lifestage = "juvenile"
    THEN [c EXCEPT !.maxHealth = (@ * 12) \div 10,
                   !.health = (c.maxHealth * 12) \div 10,
                   !.maxEnergy = (@ * 115) \div 100]
    ELSE IF c.age > c.elderAge /\ c.lifestage = "adult"
    THEN [c EXCEPT !.lifestage = "elder",
                   !.speed = (@ * 7) \div 10,
                   !.visionRange = (@ * 15) \div 10]
    ELSE c

UpdateLifecycle(c) ==
    IF c.age > c.maturityAge /\ c.lifestage = "juvenile"
    THEN [c EXCEPT !.lifestage = "adult",
                   !.maxHealth = (@ * 12) \div 10,
                   !.health = (c.maxHealth * 12) \div 10,
                   !.maxEnergy = (@ * 115) \div 100]
    ELSE IF c.age > c.elderAge /\ c.lifestage = "adult"
    THEN [c EXCEPT !.lifestage = "elder",
                   !.speed = (@ * 7) \div 10,
                   !.visionRange = (@ * 15) \div 10]
    ELSE c

\* Cell.calculateEnergyDrain of a circle with normal metabolism, with the
\* factor of the stage
StageEnergyDrain(c) ==
    ((10 + c.size \div 100)
        * (IF c.lifestage = "juvenile" THEN 8 ELSE IF c.lifestage = "elder" THEN 13 ELSE 10))
    \div 10

\* a cell as the constructor leaves it: the stage is traits.lifestage when
\* the traits passed in carry one, maturityAge is drawn from 200..400 and
\* elderAge from 1000..1500
LifeCell(stage, m, e) ==
    [lifestage |-> stage, maturityAge |-> m, elderAge |-> e, speed |-> 200,
     visionRange |-> 8000]
    @@ CellConstructor(9000, 7000, 800, "armor", "none")

\* the stage and the rescaled traits of a cell
StageTraits(c) ==
    [lifestage |-> c.lifestage, maxHealth |-> c.maxHealth, maxEnergy |-> c.maxEnergy,
     speed |-> c.speed, visionRange |-> c.visionRange]

InitLife ==
    /\ \E stage \in {"juvenile", "adult", "elder"}, m \in {200, 399}, e \in {1000, 1499} :
         cell = <<LifeCell(stage, m, e)>>
    /\ colony = <<>>
    /\ cells = <<1>>
    /\ viruses = <<>>
    /\ updates = 0
    /\ raised = FALSE
    /\ log = <<>>
    /\ pc = "api"
    /\ IdleSimulation

\* Cell.update of the cell: age++, updateLifecycle, metabolism; then the
\* simulation lets it eat
LifeUpdate ==
    /\ cell[1].age < LifeMaxAge
    /\ LET c0 == cell[1]
           c1 == UpdateLifecycle([c0 EXCEPT !.age = @ + 1])
           c2 == [c1 EXCEPT !.energy = @ - StageEnergyDrain(c1)]
           c3 == IF c2.energy < LifeHungry
                 THEN [c2 EXCEPT !.energy = Min(c2.maxEnergy, @ + FoodValue)] ELSE c2
       IN  /\ ~IsDead(c2)
           /\ cell' = <<c3>>
           /\ log' = IF StageTraits(c3) # StageTraits(c0)
                     THEN Append(log, [before |-> StageTraits(c0), after |-> StageTraits(c3)])
                     ELSE log
    /\ UNCHANGED <<colony, cells, viruses, updates, raised, pc, simVars>>

SpecLife == InitLife /\ [][LifeUpdate]_vars

(***************************************************************************)
(* Environment (src/unnamed/part_001 2-330): seasons, disasters and        *)
(* climate.  pressure holds the Environment object; its climate fields are *)
(* in 1/20000; hazardZones holds the temporary hazard zones only.  log     *)
(* holds the values the latest seasonal step assigned.                     *)
(***************************************************************************)
SeasonDuration == 2000 \* Environment.seasonDuration
EnvUpdates == 4        \* Environment.update calls explored in one behaviour

\* fault variant of updateSeasonalEffects: spring humidity with the slope of
\* the temperature
UpdateSeasonalEffects_slope(e) ==
    LET P(k) == (k * e.seasonTick) \div e.seasonDuration IN
    IF e.season = "spring"
    THEN [e EXCEPT !.temperature = 8000 + P(6000), !.humidity = 14000 + P(6000),
                   !.resourceAvailability = 16000 + P(8000)]
    ELSE e

\* updateSeasonalEffects(seasonTick / seasonDuration); P(k) is progress * k
UpdateSeasonalEffects(e) ==
    LET P(k) == (k * e.seasonTick) \div e.seasonDuration IN
    CASE e.season = "spring" ->
           [e EXCEPT !.temperature = 8000 + P(6000), !.humidity = 14000 + P(4000),
                     !.resourceAvailability = 16000 + P(8000)]
      [] e.season = "summer" ->
           [e EXCEPT !.temperature = 14000 + P(4000), !.humidity = 6000 + P(4000),
                     !.resourceAvailability = 24000 - P(8000)]
      [] e.season = "autumn" ->
           [e EXCEPT !.temperature = 12000 - P(6000), !.humidity = 10000 + P(6000),
                     !.resourceAvailability = 16000 - P(6000)]
      [] e.season = "winter" ->
           [e EXCEPT !.temperature = 6000 - P(2000), !.humidity = 16000 - P(4000),
                     !.resourceAvailability = 10000 + P(6000)]
      [] OTHER -> e

\* fault variant of updateSeasons: the season ends after seasonDuration
UpdateSeasons_late(e) ==
    LET t == e.seasonTick + 1 IN
    UpdateSeasonalEffects(
        IF t > e.seasonDuration
        THEN [e EXCEPT !.seasonTick = 0,
                       !.season = CASE @ = "spring" -> "summer" [] @ = "summer" -> "autumn"
                                    [] @ = "autumn" -> "winter" [] OTHER -> "spring"]
        ELSE [e EXCEPT !.seasonTick = t])

\* updateSeasons with advanceSeason: seasons[(indexOf(season) + 1) % 4]
UpdateSeasons(e) ==
    LET t == e.seasonTick + 1 IN
    UpdateSeasonalEffects(
        IF t >= e.seasonDuration
        THEN [e EXCEPT !.seasonTick = 0,
                       !.season = CASE @ = "spring" -> "summer" [] @ = "summer" -> "autumn"
                                    [] @ = "autumn" -> "winter" [] OTHER -> "spring"]
        ELSE [e EXCEPT !.seasonTick = t])

\* fault variant of updateDisasterEffects: the sums are not clamped
UpdateDisasterEffects_noClamp(e, d) ==
    CASE d.type = "meteor" /\ d.age = 1 ->
             [e EXCEPT !.hazardZones = Append(@, [lifetime |-> d.duration])]
      [] d.type = "toxicSpill" -> [e EXCEPT !.toxicity = @ + 20]
      [] d.type = "radiationStorm" -> [e EXCEPT !.radiation = @ + 40]
      [] d.type = "drought" -> [e EXCEPT !.resourceAvailability = (@ * 999) \div 1000]
      [] d.type = "flood" -> [e EXCEPT !.humidity = @ + 20]
      [] OTHER -> e

\* updateDisasterEffects(disaster): the climate fields and the temporary
\* hazard zone of a meteor
UpdateDisasterEffects(e, d) ==
    CASE d.type = "meteor" /\ d.age = 1 ->
             [e EXCEPT !.hazardZones = Append(@, [lifetime |-> d.duration])]
      [] d.type = "toxicSpill" -> [e EXCEPT !.toxicity = Min(20000, @ + 20)]
      [] d.type = "radiationStorm" -> [e EXCEPT !.radiation = Min(20000, @ + 40)]
      [] d.type = "drought" -> [e EXCEPT !.resourceAvailability = (@ * 999) \div 1000]
      [] d.type = "flood" -> [e EXCEPT !.humidity = Min(20000, @ + 20)]
      [] OTHER -> e

\* this.disasters.filter(...) of update(), from index i on
RECURSIVE UpdateActiveDisasters(_, _)
UpdateActiveDisasters(e, i) ==
    IF i > Len(e.disasters) THEN [e EXCEPT !.disasters = SelectSeq(@, LAMBDA d : d.duration > 0)]
    ELSE LET e1 == [e EXCEPT !.disasters[i].duration = @ - 1, !.disasters[i].age = @ + 1]
         IN  UpdateActiveDisasters(UpdateDisasterEffects(e1, e1.disasters[i]), i + 1)

\* fault variant of update(): updateClimateEffects leaves the temporary
\* hazard zones alone
EnvironmentUpdate_keepZones(e, trigger, drift) ==
    LET e1 == UpdateSeasons(e)
        e2 == IF e1.disasterCooldown > 0 THEN [e1 EXCEPT !.disasterCooldown = @ - 1]
              ELSE IF trigger = "none" THEN e1
              ELSE [e1 EXCEPT !.disasters = Append(@, [type |-> trigger, duration |-> 300, age |-> 0]),
                              !.disasterCooldown = 500]
        e3 == [e2 EXCEPT !.toxicity = Max(0, @ - 2), !.radiation = Max(0, @ - 4),
                         !.oxygenLevel = Max(10000, Min(20000, @ + drift))]
    IN  UpdateActiveDisasters(e3, 1)

\* Environment.update(): trigger is the disaster type drawn by
\* updateDisasters ("none" when the roll fails), drift the change of
\* oxygenLevel drawn by updateClimateEffects
EnvironmentUpdate(e, trigger, drift) ==
    LET e1 == UpdateSeasons(e)
        e2 == IF e1.disasterCooldown > 0 THEN [e1 EXCEPT !.disasterCooldown = @ - 1]
              ELSE IF trigger = "none" THEN e1
              ELSE [e1 EXCEPT !.disasters = Append(@, [type |-> trigger, duration |-> 300, age |-> 0]),
                              !.disasterCooldown = 500]
        e3 == [e2 EXCEPT !.toxicity = Max(0, @ - 2), !.radiation = Max(0, @ - 4),
                         !.oxygenLevel = Max(10000, Min(20000, @ + drift)),
                         !.hazardZones =
                             SelectSeq([i \in DOMAIN @ |-> [lifetime |-> @[i].lifetime - 1]],
                                       LAMBDA h : h.lifetime > 0)]
    IN  UpdateActiveDisasters(e3, 1)

DisasterTypes == {"meteor", "toxicSpill", "radiationStorm", "plague", "drought", "flood"}

\* the Environment as the constructor leaves it, or as earlier updates left
\* it: in any season, at the start, the middle or the end of the season,
\* with low or high pollution and oxygen, with or without a disaster that is
\* about to end
InitEnv ==
    /\ \E s \in {"spring", "summer", "autumn", "winter"}, t \in {0, 999, 1997},
          poll \in {0, 19990}, oxy \in {10000, 20000}, d \in DisasterTypes \cup {"none"} :
         LET e == [season |-> s, seasonTick |-> t, seasonDuration |-> SeasonDuration,
                   temperature |-> 10000, humidity |-> 10000, resourceAvailability |-> 20000,
                   toxicity |-> poll, radiation |-> poll, oxygenLevel |-> oxy,
                   disasters |-> IF d = "none" THEN <<>>
                                 ELSE <<[type |-> d, duration |-> 2, age |-> 298]>>,
                   hazardZones |-> IF d = "meteor" THEN <<[lifetime |-> 2]>> ELSE <<>>,
                   disasterCooldown |-> IF d = "none" THEN 0 ELSE 2]
         IN  pressure = IF s = "spring" /\ t = 0 /\ poll = 0 /\ oxy = 20000 /\ d = "none"
                        THEN e ELSE UpdateSeasonalEffects(e)
    /\ cell = <<>>
    /\ colony = <<>>
    /\ cells = <<>>
    /\ viruses = <<>>
    /\ updates = 0
    /\ raised = FALSE
    /\ log = <<>>
    /\ pc = "api"
    /\ colonies = <<>>
    /\ food = InitialFood
    /\ spawnCooldown = 0
    /\ tick = 0
    /\ extinctions = 0
    /\ settings = [initialCells |-> InitialCells, minPopulation |-> MinPopulation,
                   maxPopulation |-> MaxPopulation, maxFood |-> MaxFoodModel]
    /\ idx = 1
    /\ loopLen = 0
    /\ deadCells = <<>>
    /\ newCells = <<>>
    /\ calls = {}
    /\ updated = {}
    /\ born = {}
    /\ removed = {}
    /\ zeroed = {}
    /\ entered = -1

\* environment.update()
EnvUpdate ==
    /\ updates < EnvUpdates
    /\ updates' = updates + 1
    /\ \E trigger \in DisasterTypes \cup {"none"}, drift \in {-10, 10} :
         pressure' = EnvironmentUpdate(pressure, trigger, drift)
    /\ log' = <<[before |-> pressure, step |-> UpdateSeasons(pressure)]>>
    /\ UNCHANGED <<cell, colony, cells, viruses, raised, pc, colonies, food, spawnCooldown,
                   tick, extinctions, settings, idx, loopLen, deadCells, newCells, calls,
                   updated, born, removed, zeroed, entered>>

SpecEnv == InitEnv /\ [][EnvUpdate]_vars

\* environment.update() as updateSingleStep calls it, once every tick, for
\* as long as the simulation runs: followed from an Environment at the
\* start of a season with clean air, through EnvUpdates updates in which a
\* disaster may be triggered, and on until the disasters and temporary
\* hazard zones of those updates are over.  log lists the disaster types
\* triggered.
EnvUpdateLive ==
    /\ updates < EnvUpdates \/ pressure.disasters # <<>> \/ pressure.hazardZones # <<>>
    /\ updates' = Min(updates + 1, EnvUpdates)
    /\ \E trigger \in (IF updates < EnvUpdates THEN DisasterTypes \cup {"none"} ELSE {"none"}) :
         /\ pressure' = EnvironmentUpdate(pressure, trigger, 10)
         /\ log' = IF trigger # "none" /\ pressure.disasterCooldown = 0
                   THEN Append(log, trigger) ELSE log
    /\ UNCHANGED <<cell, colony, cells, viruses, raised, pc, colonies, food, spawnCooldown,
                   tick, extinctions, settings, idx, loopLen, deadCells, newCells, calls,
                   updated, born, removed, zeroed, entered>>

\* an Environment at the start of a season with clean air
InitEnvLive ==
    /\ InitEnv
    /\ pressure.seasonTick = 0 /\ pressure.toxicity = 0 /\ pressure.oxygenLevel = 20000

SpecEnvLive == InitEnvLive /\ [][EnvUpdateLive]_vars /\ WF_vars(EnvUpdateLive)

(***************************************************************************)
(* Single calls of methods whose result depends on their arguments only.   *)
(* Each action is one call with arguments drawn from small sets; calls     *)
(* holds the record of the call: the method, its arguments and what it    *)
(* returned or left behind.  A behaviour makes one call.                   *)
(***************************************************************************)
restVars == <<cell, colony, cells, viruses, updates, raised, log, pc, colonies, food,
              spawnCooldown, tick, extinctions, settings, pressure, idx, loopLen, deadCells,
              newCells, updated, born, removed, zeroed, entered>>

InitCalls ==
    /\ cell = <<>>
    /\ colony = <<>>
    /\ cells = <<>>
    /\ viruses = <<>>
    /\ updates = 0
    /\ raised = FALSE
    /\ log = <<>>
    /\ pc = "api"
    /\ IdleSimulation

\* Simulation.update(): the number of updateSingleStep() calls it makes at
\* simulationSpeed s (in 1/100); extra is Math.random() < partialUpdate
UpdateSingleSteps(s, extra) ==
    IF s <= 0 THEN 0
    ELSE Max(1, s \div 100) + (IF s % 100 > 0 /\ extra THEN 1 ELSE 0)

SimulationUpdateCall ==
    /\ calls = {}
    /\ \E s \in {-100, 0, 25, 50, 100, 150, 200, 275, 300}, extra \in BOOLEAN :
         calls' = {[op |-> "update", speed |-> s, steps |-> UpdateSingleSteps(s, extra)]}
    /\ UNCHANGED restVars

\* calculateDefenseInteraction(attacker, defender, baseDamage) on two cells
\* of any defence type and shape, the defence states low or high
DefenseInteractionCall ==
    /\ calls = {}
    /\ \E at \in {"armor", "spikes", "electric", "explosive", "swarm"},
          dt \in {"armor", "shield", "reflect", "phase"},
          ash \in {"circle", "triangle", "star"}, dsh \in {"circle", "square"},
          charge \in {700, 710}, level \in {200, 310}, ah \in {2900, 3000, 9000},
          base \in {160, 1000} :
         LET A == [DefenseCell(ah, at) EXCEPT !.shape = ash,
                                              !.defenseStates.electricCharge = charge]
             D == [DefenseCell(10000, dt) EXCEPT !.shape = dsh,
                                                 !.defenseStates.shieldEnergy = level,
                                                 !.defenseStates.phaseShift = level]
             r == CalculateDefenseInteraction([cell |-> <<A, D>>, colony |-> <<>>], 1, 2, base)
         IN  calls' = {[op |-> "calculateDefenseInteraction", before |-> <<A, D>>,
                        base |-> base, after |-> r.W.cell, damage |-> r.damage]}
    /\ UNCHANGED restVars

\* What a reference field of a cell holds after the method that uses it.
\* An entity is [kind, traitsHealth, consumed]: a Cell has traits.health and
\* no consumed, a Food has consumed; neither has a property named health,
\* so target.health <= 0 in makeDecisions compares undefined and is false.
\* found is what the search that follows assigned (kind "none": nothing),
\* inReach whether the host is close enough to drain.
ReferenceAfterUse(field, held, found, inReach) ==
    LET none == [kind |-> "none", traitsHealth |-> 0, consumed |-> FALSE] IN
    CASE field = "target" ->
           LET kept == IF held.kind # "none" /\ held.consumed THEN none ELSE held IN
           IF found.kind # "none" THEN found ELSE kept
      [] field = "parasiteHost" ->
           IF held.kind # "none" /\ held.traitsHealth > 0 /\ inReach THEN held ELSE found
      [] field = "mimicTarget" ->
           IF held.kind = "none" \/ held.traitsHealth <= 0 THEN none ELSE held

\* makeDecisions, parasiteBehavior or mimicBehavior of a cell that holds a
\* reference to nothing, to a live or dead cell, or (as target) to a fresh
\* or consumed food particle
ReferenceUseCall ==
    /\ calls = {}
    /\ \E field \in {"target", "parasiteHost", "mimicTarget"},
          held \in [kind : {"none", "cell", "food"}, traitsHealth : {0, 5000},
                    consumed : BOOLEAN],
          found \in [kind : {"none", "cell"}, traitsHealth : {5000}, consumed : {FALSE}],
          inReach \in BOOLEAN :
         /\ held.kind = "cell" => ~held.consumed
         /\ held.kind = "food" => field = "target" /\ held.traitsHealth = 0
         /\ held.kind = "none" => held.traitsHealth = 0 /\ ~held.consumed
         /\ calls' = {[op |-> field, held |-> held, found |-> found, inReach |-> inReach,
                       after |-> ReferenceAfterUse(field, held, found, inReach)]}
    /\ UNCHANGED restVars

\* colony.shareResources() of a colony of one to three members, each with
\* an energy and a maxEnergy the traits allow
ShareResourcesCall ==
    /\ calls = {}
    /\ \E n \in 1..3 :
         \E em \in [1..n -> {<<500, 8000>>, <<3000, 4000>>, <<8000, 8000>>, <<11000, 12000>>}] :
           LET W == [cell   |-> [i \in 1..n |->
                                   [CellConstructor(9000, em[i][1], 800, "armor", "none")
                                       EXCEPT !.maxEnergy = em[i][2], !.colony = 1]],
                     colony |-> <<[members |-> [i \in 1..n |-> i], founder |-> 1,
                                   bonds |-> {}, sharedEnergy |-> 0]>>]
           IN  calls' = {[op |-> "shareResources", before |-> W, after |-> ShareResources(W, 1)]}
    /\ UNCHANGED restVars

\* fault variant of mutate: the perturbed value is stored without Math.max /
\* Math.min
Mutate_noClamp(traits, roll) ==
    LET spread == [size |-> 400, speed |-> 60, maxHealth |-> 2000, maxEnergy |-> 2000,
                   temperatureTolerance |-> 200, acidTolerance |-> 200,
                   radiationResistance |-> 150, visionRange |-> 2000,
                   communicationRange |-> 1500, pheromoneProduction |-> 200,
                   toxinResistance |-> 200, magneticSensitivity |-> 150,
                   electrogenesis |-> 100]
        new(t) == traits[t] + ((roll[t] - 50) * spread[t]) \div 100
    IN  [t \in DOMAIN traits |->
            CASE t = "generation"  -> traits[t] + 1
              [] t = "health"      -> new("maxHealth")
              [] t = "energy"      -> (new("maxEnergy") * 8) \div 10
              [] t \in DOMAIN spread -> new(t)
              [] OTHER             -> traits[t]]

\* Cell.mutate(1.0): every test Math.random() < mutationRate succeeds, so
\* every numeric trait is perturbed; roll[t] is the value of Math.random()
\* in 1/100 drawn for trait t.  size, speed, visionRange and
\* communicationRange are in 1/100, maxHealth and maxEnergy in 1/100, the
\* tolerances, resistances and sensitivities in 1/1000.  band is the pair of
\* the Math.max and Math.min arguments, spread the factor of the
\* perturbation.
Mutate(traits, roll) ==
    LET band   == [size |-> <<400, 2000>>, speed |-> <<20, 300>>,
                   maxHealth |-> <<4000, 16000>>, maxEnergy |-> <<4000, 12000>>,
                   temperatureTolerance |-> <<100, 900>>, acidTolerance |-> <<100, 900>>,
                   radiationResistance |-> <<50, 800>>, visionRange |-> <<2000, 12000>>,
                   communicationRange |-> <<1500, 10000>>, pheromoneProduction |-> <<0, 800>>,
                   toxinResistance |-> <<0, 900>>, magneticSensitivity |-> <<0, 800>>,
                   electrogenesis |-> <<0, 600>>]
        spread == [size |-> 400, speed |-> 60, maxHealth |-> 2000, maxEnergy |-> 2000,
                   temperatureTolerance |-> 200, acidTolerance |-> 200,
                   radiationResistance |-> 150, visionRange |-> 2000,
                   communicationRange |-> 1500, pheromoneProduction |-> 200,
                   toxinResistance |-> 200, magneticSensitivity |-> 150,
                   electrogenesis |-> 100]
        new(t) == Max(band[t][1],
                      Min(band[t][2], traits[t] + ((roll[t] - 50) * spread[t]) \div 100))
    IN  [t \in DOMAIN traits |->
            CASE t = "generation"  -> traits[t] + 1
              [] t = "health"      -> new("maxHealth")
              [] t = "energy"      -> (new("maxEnergy") * 8) \div 10
              [] t \in DOMAIN spread -> new(t)
              [] OTHER             -> traits[t]]

\* cell.mutate(1.0) of a parent whose physical traits (size, speed,
\* maxHealth, maxEnergy) and whose other numeric traits each lie below,
\* at the ends of, or above what a new cell gets (growth, ageing and
\* learning move them after construction)
MutateCall ==
    /\ calls = {}
    /\ \E p1, p2 \in {"below", "low", "high", "above"}, r1, r2 \in {0, 50, 99} :
         LET physical == {"size", "speed", "maxHealth", "maxEnergy"}
             value(p, lo, hi) == CASE p = "below" -> lo \div 2
                                   [] p = "low"   -> lo
                                   [] p = "high"  -> hi
                                   [] OTHER       -> hi + hi \div 2
             parent == [size |-> value(p1, 400, 2000), speed |-> value(p1, 20, 300),
                        maxHealth |-> value(p1, 4000, 16000), maxEnergy |-> value(p1, 4000, 12000),
                        health |-> 5000, energy |-> 3000, generation |-> 1,
                        temperatureTolerance |-> value(p2, 100, 900),
                        acidTolerance |-> value(p2, 100, 900),
                        radiationResistance |-> value(p2, 50, 800),
                        visionRange |-> value(p2, 2000, 12000),
                        communicationRange |-> value(p2, 1500, 10000),
                        pheromoneProduction |-> value(p2, 0, 800),
                        toxinResistance |-> value(p2, 0, 900),
                        magneticSensitivity |-> value(p2, 0, 800),
                        electrogenesis |-> value(p2, 0, 600)]
             roll == [t \in DOMAIN parent |-> IF t \in physical THEN r1 ELSE r2]
         IN  calls' = {[op |-> "mutate", parent |-> parent, newTraits |-> Mutate(parent, roll)]}
    /\ UNCHANGED restVars

\* new Food(x, y, size): radius and energyValue in 1/100, maxAge in 1/10 of
\* an update; r1 is the first value of Math.random() in 1/100, r2 the second
\* in 1/12000.  A size of 0 or null takes the random radius.
FoodConstructor(size, r1, r2) ==
    LET radius == IF size # 0 THEN size ELSE 200 + r1 * 4
    IN  [radius      |-> radius,
         energyValue |-> radius * 8,
         consumed    |-> FALSE,
         age         |-> 0,
         maxAge      |-> 18000 + r2]

\* fault variant of Food.update: expiry already when age reaches maxAge
FoodUpdate_atMaxAge(f) ==
    IF f.consumed THEN [food |-> f, returned |-> FALSE]
    ELSE LET g == [f EXCEPT !.age = @ + 1]
         IN  [food |-> g, returned |-> ~(g.age * 10 >= g.maxAge)]

\* Food.update(): the particle after the call and the value returned (the
\* decay factor is only drawn)
FoodUpdate(f) ==
    IF f.consumed THEN [food |-> f, returned |-> FALSE]
    ELSE LET g == [f EXCEPT !.age = @ + 1]
         IN  [food |-> g, returned |-> ~(g.age * 10 > g.maxAge)]

\* FoodManager.update's filter over a list holding one particle that was
\* constructed, has been updated some number of times and may have been
\* eaten
FoodUpdateCall ==
    /\ calls = {}
    /\ \E size \in {0, 200, 450, 800}, r1 \in {0, 99}, r2 \in {0, 5, 6000}, consumed \in BOOLEAN :
         LET new == FoodConstructor(size, r1, r2) IN
         \E age \in {0, 1799, 1800, 1801, new.maxAge \div 10 - 1, new.maxAge \div 10,
                     new.maxAge \div 10 + 1} :
           LET f == [new EXCEPT !.age = age, !.consumed = consumed]
               r == FoodUpdate(f)
           IN  calls' = {[op |-> "foodUpdate", before |-> f, returned |-> r.returned,
                          food |-> IF r.returned THEN <<r.food>> ELSE <<>>]}
    /\ UNCHANGED restVars

\* the reproduction block of one cells.forEach callback (lines 1521-1536)
\* for a parent with its flag set, alone or the founder of a colony, in a
\* population of n cells: inherit is the 60% roll of createOffspring,
\* success the roll of line 1525, which can fail only in a population above
\* 1.3 times maxPopulation
ReproductionCall ==
    /\ calls = {}
    /\ \E n \in {2, 5}, founder \in BOOLEAN, inherit \in BOOLEAN, success \in BOOLEAN :
         /\ ~success => CanFailReproduction(n, settings.maxPopulation)
         /\ LET W0 == [cell   |-> [i \in 1..n |->
                                     [CellConstructor(9000, 7000, 800, "armor", "none")
                                         EXCEPT !.reproduced = (i = 1)]],
                       colony |-> <<>>]
                W  == IF founder THEN ColonyConstructor(W0, 1) ELSE W0
                h  == HandleReproduction(W, [i \in 1..n |-> i], <<>>, 1,
                                         CellConstructor(10000, 7500, 1000, "swarm", "none"),
                                         inherit, success)
            IN  calls' = {[op |-> "reproduction", offspring |-> h.born, success |-> success,
                           after |-> h.W, cells |-> h.cells, newCells |-> h.newCells]}
    /\ UNCHANGED restVars

\* colony.createBond(a, b) on a colony of three members in which createBond
\* has bonded members 1 and 2, or has bonded nobody yet
CreateBondCall ==
    /\ calls = {}
    /\ \E first \in BOOLEAN, a \in 1..3, b \in 1..3 :
         /\ a # b
         /\ LET W0 == ColonyConstructor(
                          [cell   |-> [i \in 1..3 |-> CellConstructor(9000, 7000, 800, "armor", "none")],
                           colony |-> <<>>], 1)
                W1 == AddMember(AddMember(W0, 1, 2, NoCell), 1, 3, NoCell)
                W  == IF first THEN CreateBond(W1, 1, 1, 2) ELSE W1
            IN  calls' = {[op |-> "createBond", cell1 |-> a, cell2 |-> b,
                           before |-> W.colony[1].bonds,
                           after |-> CreateBond(W, 1, a, b).colony[1].bonds]}
    /\ UNCHANGED restVars

\* simulation.reset(newSettings) on a simulation that has run: the fields
\* the method assigns (lines 1409-1423 with FoodManager.reset and
\* spawnInitialCells) get their new values, every other field keeps its
\* own.  roundTick and currentRound are fields of the round-based variant
\* (src/js/simulation.js 22-25), whose reset is the same text.
ResetCall ==
    /\ calls = {}
    /\ \E n \in 0..MaxPopulation, t \in {0, 7}, v \in 0..MaxViruses, k \in {0, 1},
          round \in {<<1, 0>>, <<2, 41>>}, initial \in {0, 1} :
         LET before == [cells        |-> [i \in 1..n |-> CellConstructor(9000, 7000, 800, "armor", "none")],
                        tick         |-> t,
                        generation   |-> 1 + t \div 4,
                        viruses      |-> [i \in 1..v |-> VirusConstructor(i)],
                        colonies     |-> [i \in 1..k |-> i],
                        food         |-> n,
                        spawnCooldown |-> t,
                        currentRound |-> round[1],
                        roundTick    |-> round[2],
                        settings     |-> settings]
             merged == IF initial = 0 THEN settings
                       ELSE [settings EXCEPT !.initialCells = initial]
             after  == [before EXCEPT
                          !.settings = merged,
                          !.cells = [i \in 1..merged.initialCells |->
                                       CellConstructor(10000, 7500, 1000, "swarm", "none")],
                          !.tick = 0,
                          !.generation = 1,
                          !.food = InitialFood,
                          !.spawnCooldown = 0]
         IN  calls' = {[op |-> "reset", before |-> before, after |-> after]}
    /\ UNCHANGED restVars

NextCalls ==
    \/ SimulationUpdateCall
    \/ DefenseInteractionCall
    \/ ReferenceUseCall
    \/ ShareResourcesCall
    \/ MutateCall
    \/ FoodUpdateCall
    \/ ReproductionCall
    \/ CreateBondCall
    \/ ResetCall

SpecCalls == InitCalls /\ [][NextCalls]_vars

(***************************************************************************)
(* Properties                                                              *)
(***************************************************************************)
TickEnd == pc = "idle" /\ tick > 0

InColony(c, k) == Includes(colony[k].members, c)

HasBondEntry(k, a, b) ==
    \E e \in colony[k].bonds : {e.cell1, e.cell2} = {a, b}

\* C1: at the end of every tick every cell of the list has 0 <= health <=
\* maxHealth and 0 <= energy <= maxEnergy.
CexC1 ==
    TickEnd => \A c \in Range(cells) :
                 /\ 0 <= cell[c].health /\ cell[c].health <= cell[c].maxHealth
                 /\ 0 <= cell[c].energy /\ cell[c].energy <= cell[c].maxEnergy

\* C2: after a tick that removed a cell as dead, the cell is in no list of
\* the simulation: not in cells, in no colony's members, in no other cell's
\* bond list, in no colony's bond entries.
CexC2 ==
    TickEnd => \A c \in removed :
                 /\ ~Includes(cells, c)
                 /\ \A k \in DOMAIN colony :
                      /\ ~InColony(c, k)
                      /\ \A e \in colony[k].bonds : c \notin {e.cell1, e.cell2}
                 /\ \A o \in DOMAIN cell : o # c => ~Includes(cell[o].bonds, c)

InvC4 ==
    \A c \in DOMAIN cell :
      /\ \A k \in DOMAIN colony :
           InColony(c, k) =>
             /\ cell[c].colony = k
             /\ Cardinality({i \in DOMAIN colony[k].members : colony[k].members[i] = c}) = 1
      /\ cell[c].colony # NoColony => InColony(c, cell[c].colony)

\* a colony that an offspring inherited, besides its founder and the cell the
\* founder bonded with
WitC4 ==
    \E k \in DOMAIN colony :
      /\ Len(colony[k].members) >= 3
      /\ \E c \in Range(colony[k].members) : c > InitialCells /\ cell[c].colony = k

\* C5: a cell whose health or energy reached 0 or less during a tick is out
\* of the cells list when the tick ends.
CexC5 == TickEnd => zeroed \cap Range(cells) = {}

\* C6: handleCellInteraction is never invoked with a participant that the
\* running tick has already found dead.
CexC6 == \A x \in calls : ~x.foundDead

\* C7: the offspring constructed in a tick are in cells only after the loop
\* over the cells has ended; in that tick they are not updated and are no
\* participant of a handleCellInteraction call.
InvC7 ==
    /\ born \cap updated = {}
    /\ \A x \in calls : x.c1 \notin born /\ x.c2 \notin born
    /\ pc = "cells" => born \cap Range(cells) = {}

WitC7 ==
    /\ pc = "selection"
    /\ born # {}
    /\ born \subseteq Range(cells)
    /\ calls # {}

\* the rank the phases have in the stated order: environment, food, per-cell
\* update, pairwise interactions, reproduction and removal of the dead,
\* viruses, colonies, population control, statistics
PhaseRank(p) ==
    CASE p = "environment" -> 1
      [] p = "food" -> 2
      [] p = "update" -> 3
      [] p = "interact" -> 4
      [] p \in {"reproduce", "remove", "add"} -> 5
      [] p = "viruses" -> 6
      [] p = "colonies" -> 7
      [] p \in {"selection", "maintain"} -> 8
      [] OTHER -> 9

\* C8: the phases of a tick run in the stated order, each one completing
\* for all entities before the next one begins.
CexC8 ==
    \A i \in 1..(Len(log) - 1) : PhaseRank(log[i]) <= PhaseRank(log[i + 1])

\* C9: with initialCells >= 1 the cells list is not empty at the end of a
\* tick: a tick whose removals leave no cell adds exactly initialCells new
\* cells and counts one extinction.
InvC9 ==
    /\ [](TickEnd => Len(cells) >= 1)
    /\ [][(pc = "maintain" /\ Len(cells) = 0)
            => (Len(cells') = settings.initialCells /\ extinctions' = extinctions + 1)]_vars

WitC9 == TickEnd /\ extinctions = 1 /\ removed # {}

\* C10: applyNaturalSelection entered with n cells leaves at least
\* minPopulation when n >= minPopulation (it removes at most n -
\* minPopulation) and removes nothing when n < minPopulation.
InvC10 ==
    (pc = "viruses" /\ entered >= 0) =>
      /\ Len(cells) <= entered
      /\ entered >= settings.minPopulation => Len(cells) >= settings.minPopulation
      /\ entered < settings.minPopulation => Len(cells) = entered

\* a call that removed cells down to minPopulation exactly
WitC10 ==
    /\ pc = "viruses"
    /\ entered > settings.minPopulation
    /\ Len(cells) = settings.minPopulation

\* C11: considerReproduction succeeds (sets the flag and charges the energy
\* cost) at most once at one age of the cell, and every success after the
\* first comes more than the cooldown computed by that check after the one
\* before it.
InvC11 ==
    \A i \in DOMAIN log : \A j \in DOMAIN log :
        i < j => /\ log[i].age < log[j].age
                 /\ (log[j].age - log[i].age) * 1000000 > log[j].cooldown

\* two successful checks, the second at the current age, where the check
\* was then made once more
WitC11 ==
    /\ pc = "api"
    /\ Len(log) = 2
    /\ log[2].age = cell[1].age
    /\ updates = 2

\* C12: no step of the simulation raises: no call of an undefined method,
\* no dereference of a missing value.
CexC12 == ~raised

CexC13 ==
    \A x \in calls :
        /\ x.tick = tick => x.cell \notin Range(cells)
        /\ \A y \in calls : y.cell = x.cell => y.tick = x.tick

\* C18: at the end of every tick the defence state of every listed cell is
\* in range (in 1/10), and viralLoad, explosivePower and reflectCharge are
\* numbers.
CexC18 ==
    tick > 0 =>
        \A c \in Range(cells) :
            LET ds == cell[c].defenseStates IN
            /\ 0 <= ds.shieldEnergy /\ ds.shieldEnergy <= 1000
            /\ 0 <= ds.electricCharge /\ ds.electricCharge <= 1000
            /\ 0 <= ds.magneticField /\ ds.magneticField <= 800
            /\ 0 <= ds.camouflageActive /\ ds.camouflageActive <= 600
            /\ 0 <= ds.poisonAura /\ ds.poisonAura <= 1200
            /\ 0 <= ds.phaseShift /\ ds.phaseShift <= 600
            /\ 0 <= ds.viralLoad
            /\ 0 <= ds.explosivePower
            /\ ds.reflectCharge.defined /\ 0 <= ds.reflectCharge.value

\* C14: every interaction resolved in a tick attempts cooperation before
\* predation and combat.
CexC14 == \A x \in calls : x.cooperation

\* C15: in one tick no pair of cells is resolved by handleCellInteraction
\* once in each order.
CexC15 == \A x \in calls : \A y \in calls : ~(x.c1 = y.c2 /\ x.c2 = y.c1)

\* C16: an addMember call with a cell that is a member of a different colony
\* returns false, and every cell is in the members of at most one colony.
CexC16 ==
    /\ \A x \in calls : x.elsewhere => ~x.returned
    /\ \A c \in DOMAIN cell : Cardinality({k \in DOMAIN colony : InColony(c, k)}) <= 1

\* C17: when removeMember(c) returns for a member c that has bonds, c is out
\* of members, c.colony is null, no bond entry of the colony references c
\* and no remaining member's bond list contains c.
CexC17 ==
    [][\A k \in DOMAIN colony : \A c \in DOMAIN cell :
         (/\ Includes(colony[k].members, c)
          /\ cell[c].bonds # <<>>
          /\ ~Includes(colony'[k].members, c)
          /\ ~raised')
         => /\ cell'[c].colony = NoColony
            /\ \A e \in colony'[k].bonds : c \notin {e.cell1, e.cell2}
            /\ \A o \in Range(colony'[k].members) : ~Includes(cell'[o].bonds, c)]_vars

\* C19: the stage of a cell only moves juvenile -> adult -> elder; each of
\* the two moves happens at most once, and the rescaling of maxHealth and
\* maxEnergy (adult) or speed and visionRange (elder) is applied in the
\* update that makes the move and in no other.
InvC19 ==
    /\ \A i \in DOMAIN log :
         LET b == log[i].before
             a == log[i].after
         IN  \/ /\ b.lifestage = "juvenile" /\ a.lifestage = "adult"
                /\ a.maxHealth = (b.maxHealth * 12) \div 10
                /\ a.maxEnergy = (b.maxEnergy * 115) \div 100
                /\ a.speed = b.speed /\ a.visionRange = b.visionRange
             \/ /\ b.lifestage = "adult" /\ a.lifestage = "elder"
                /\ a.speed = (b.speed * 7) \div 10
                /\ a.visionRange = (b.visionRange * 15) \div 10
                /\ a.maxHealth = b.maxHealth /\ a.maxEnergy = b.maxEnergy
    /\ \A i \in DOMAIN log : \A j \in DOMAIN log :
         i < j => log[i].after.lifestage = "adult" /\ log[j].after.lifestage = "elder"

\* a cell that began as a juvenile, is an elder now and made both moves
WitC19 ==
    /\ pc = "api"
    /\ Len(log) = 2
    /\ log[1].before.lifestage = "juvenile"
    /\ cell[1].lifestage = "elder"
    /\ cell[1].age > cell[1].elderAge + 1

\* C21: seasons cycle spring -> summer -> autumn -> winter -> spring; the
\* season changes exactly on the update at which seasonTick reaches
\* seasonDuration, seasonTick is 0 then, and 0 <= seasonTick < seasonDuration
\* after every update.
InvC21 ==
    \A i \in DOMAIN log :
        LET b == log[i].before IN
        /\ 0 <= pressure.seasonTick /\ pressure.seasonTick < pressure.seasonDuration
        /\ IF b.seasonTick + 1 = b.seasonDuration
           THEN /\ pressure.seasonTick = 0
                /\ <<b.season, pressure.season>> \in
                       {<<"spring", "summer">>, <<"summer", "autumn">>,
                        <<"autumn", "winter">>, <<"winter", "spring">>}
           ELSE /\ pressure.season = b.season
                /\ pressure.seasonTick = b.seasonTick + 1

\* the update that ends the winter
WitC21 ==
    /\ Len(log) = 1
    /\ log[1].before.season = "winter"
    /\ pressure.season = "spring"
    /\ pressure.seasonTick = 0

\* C22: temperature, humidity, toxicity, radiation and oxygenLevel are in
\* [0, 1] and resourceAvailability is in [0, 1.2], whatever disasters are
\* active.
InvC22 ==
    /\ \A f \in {"temperature", "humidity", "toxicity", "radiation", "oxygenLevel"} :
         0 <= pressure[f] /\ pressure[f] <= 20000
    /\ 0 <= pressure.resourceAvailability /\ pressure.resourceAvailability <= 24000

\* a toxic spill and a radiation storm that ran into the upper clamp
WitC22 ==
    /\ updates > 0
    /\ \/ pressure.toxicity = 20000 /\ \E i \in DOMAIN pressure.disasters : pressure.disasters[i].type = "toxicSpill"
       \/ pressure.radiation = 20000 /\ \E i \in DOMAIN pressure.disasters : pressure.disasters[i].type = "radiationStorm"

\* C30: in spring the seasonal step assigns temperature = 0.4 + 0.3p,
\* humidity = 0.7 + 0.2p and resourceAvailability = 0.8 + 0.4p at
\* p = seasonTick / seasonDuration; p = 0.5 gives 0.55, 0.8 and 1.0.
InvC30 ==
    \A i \in DOMAIN log :
        LET a == log[i].step IN
        a.season = "spring" =>
            /\ a.temperature * a.seasonDuration = 8000 * a.seasonDuration + 6000 * a.seasonTick
            /\ a.humidity * a.seasonDuration = 14000 * a.seasonDuration + 4000 * a.seasonTick
            /\ a.resourceAvailability * a.seasonDuration = 16000 * a.seasonDuration + 8000 * a.seasonTick
            /\ 2 * a.seasonTick = a.seasonDuration =>
                 a.temperature = 11000 /\ a.humidity = 16000 /\ a.resourceAvailability = 20000

\* the seasonal step of mid-spring
WitC30 ==
    /\ Len(log) = 1
    /\ log[1].step.season = "spring"
    /\ 2 * log[1].step.seasonTick = log[1].step.seasonDuration
    /\ log[1].step.temperature = 11000

\* C26: a step that removes one cell of size s from the cells list adds
\* exactly floor(s / 4) + 1 food particles.
CexC26 ==
    [][Len(cells') = Len(cells) - 1
       => \E c \in Range(cells) \ Range(cells') :
            food' = food + (cell[c].size \div 400) + 1]_vars

\* C23: one Simulation.update() at speed s runs no tick when s <= 0, and
\* otherwise floor(s) ticks or one more, one more only when s has a
\* fractional part.
CexC23 ==
    \A x \in calls :
        x.op = "update" =>
            IF x.speed <= 0 THEN x.steps = 0
            ELSE \/ x.steps = x.speed \div 100
                 \/ x.steps = x.speed \div 100 + 1 /\ x.speed % 100 # 0

\* C28: against an armor defender, an attacker without offensive bonus and
\* without shape advantage deals exactly half of the base damage and the
\* call changes neither cell; base damage 10 takes a health of 100 to 95.
InvC28 ==
    \A x \in calls :
        (/\ x.op = "calculateDefenseInteraction"
         /\ x.before[2].defenseType = "armor"
         /\ x.before[1].defenseType # "spikes"
         /\ ~(x.before[1].defenseType = "electric" /\ x.before[1].defenseStates.electricCharge > 700)
         /\ ~(x.before[1].defenseType = "explosive" /\ x.before[1].health * 10 < x.before[1].maxHealth * 3)
         /\ <<x.before[1].shape, x.before[2].shape>> \notin
                {<<"triangle", "circle">>, <<"square", "triangle">>, <<"star", "square">>,
                 <<"hexagon", "star">>})
        => /\ 2 * x.damage = x.base
           /\ x.after = x.before
           /\ x.base = 1000 /\ x.before[2].health = 10000 => x.before[2].health - x.damage = 9500

\* an electric attacker whose charge is exactly 70 hits an armor defender
\* of another shape with base damage 10
WitC28 ==
    \E x \in calls :
        /\ x.op = "calculateDefenseInteraction"
        /\ x.before[2].defenseType = "armor" /\ x.before[2].shape = "square"
        /\ x.before[1].defenseType = "electric" /\ x.before[1].shape = "triangle"
        /\ x.before[1].defenseStates.electricCharge = 700
        /\ x.base = 1000 /\ x.damage = 500

\* C24: after the method that uses it, a reference a cell holds (target,
\* parasiteHost, mimicTarget) is null or names a live cell or an unconsumed
\* food particle.
CexC24 ==
    \A x \in calls :
        x.op \in {"target", "parasiteHost", "mimicTarget"} =>
            \/ x.after.kind = "none"
            \/ x.after.kind = "cell" /\ x.after.traitsHealth > 0
            \/ x.after.kind = "food" /\ ~x.after.consumed

\* C25: shareResources starts the reserve at 10% of the members' total
\* energy and takes every gift from it, gives energy only to members below
\* their target (the smaller of 90% of the average and maxEnergy), takes
\* energy from no member and leaves no member above its maxEnergy.
InvC25 ==
    \A x \in calls :
        x.op = "shareResources" =>
            LET members == x.before.colony[1].members
                total   == TotalEnergy(x.before, members, 1)
                gifts   == TotalEnergy(x.after, members, 1) - total
            IN  /\ x.after.colony[1].sharedEnergy = total \div 10 - gifts
                /\ \A c \in Range(members) :
                     LET b == x.before.cell[c]
                         a == x.after.cell[c]
                     IN  /\ a.energy >= b.energy
                         /\ a.energy > b.energy =>
                              b.energy < Min(((total * 9) \div 10) \div Len(members), b.maxEnergy)
                         /\ a.energy <= a.maxEnergy

\* a call that gave a member energy up to its maxEnergy and no more
WitC25 ==
    \E x \in calls :
        /\ x.op = "shareResources"
        /\ \E c \in Range(x.before.colony[1].members) :
             /\ x.after.cell[c].energy > x.before.cell[c].energy
             /\ x.after.cell[c].energy = x.after.cell[c].maxEnergy

\* C27: at mutationRate 1.0 every numeric trait mutate perturbs lies inside
\* its band in the offspring's traits, whatever the parent's value was:
\* size [4,20], speed [0.2,3.0], maxHealth [40,160], maxEnergy [40,120],
\* temperatureTolerance and acidTolerance [0.1,0.9], radiationResistance
\* [0.05,0.8], visionRange [20,120], communicationRange [15,100],
\* pheromoneProduction [0,0.8], toxinResistance [0,0.9],
\* magneticSensitivity [0,0.8], electrogenesis [0,0.6].
InvC27 ==
    \A x \in calls :
        x.op = "mutate" =>
            LET n == x.newTraits
                in(t, lo, hi) == lo <= n[t] /\ n[t] <= hi
            IN  /\ in("size", 400, 2000) /\ in("speed", 20, 300)
                /\ in("maxHealth", 4000, 16000) /\ in("maxEnergy", 4000, 12000)
                /\ in("temperatureTolerance", 100, 900) /\ in("acidTolerance", 100, 900)
                /\ in("radiationResistance", 50, 800) /\ in("visionRange", 2000, 12000)
                /\ in("communicationRange", 1500, 10000) /\ in("pheromoneProduction", 0, 800)
                /\ in("toxinResistance", 0, 900) /\ in("magneticSensitivity", 0, 800)
                /\ in("electrogenesis", 0, 600)

\* a mutation of a parent above the bands (maxHealth 240, visionRange 180)
\* whose offspring was brought back to the upper ends
WitC27 ==
    \E x \in calls :
        /\ x.op = "mutate"
        /\ x.parent.maxHealth > 16000 /\ x.newTraits.maxHealth = 16000
        /\ x.parent.visionRange > 12000 /\ x.newTraits.visionRange = 12000
        /\ x.newTraits.generation = x.parent.generation + 1

\* C29: a Food particle of radius r has energyValue 8r, and an unconsumed
\* particle is dropped by the update that makes its age exceed maxAge and
\* kept by every update that leaves its age at or below maxAge.
InvC29 ==
    \A x \in calls :
        x.op = "foodUpdate" =>
            /\ x.before.energyValue = 8 * x.before.radius
            /\ \A i \in DOMAIN x.food : x.food[i].energyValue = 8 * x.food[i].radius
            /\ ~x.before.consumed =>
                 /\ (x.before.age + 1) * 10 > x.before.maxAge => ~x.returned /\ x.food = <<>>
                 /\ (x.before.age + 1) * 10 <= x.before.maxAge =>
                      /\ x.returned
                      /\ Len(x.food) = 1
                      /\ x.food[1].age = x.before.age + 1

\* an unconsumed particle of maxAge 1800.5 whose age went from 1800 to 1801
\* and that was dropped
WitC29 ==
    \E x \in calls :
        /\ x.op = "foodUpdate"
        /\ ~x.before.consumed
        /\ x.before.maxAge = 18005 /\ x.before.age = 1800
        /\ ~x.returned
        /\ x.food = <<>>

\* C40: shareResources creates no energy: the members' energy plus the
\* reserve after the call is at most the members' energy before the call,
\* and the reserve is not negative.
CexC40 ==
    \A x \in calls :
        x.op = "shareResources" =>
            LET members == x.before.colony[1].members
            IN  /\ TotalEnergy(x.after, members, 1) + x.after.colony[1].sharedEnergy
                     <= TotalEnergy(x.before, members, 1)
                /\ x.after.colony[1].sharedEnergy >= 0

\* C37: a virus with positive health, infections left in its budget and an
\* age that the next update does not take above 2000 is still in the
\* viruses list after any step; in particular a freshly spawned virus
\* survives its first update.
CexC37 ==
    [][\A i \in DOMAIN viruses :
          (/\ viruses[i].health > 0
           /\ viruses[i].infectionsCount < MaxInfections
           /\ viruses[i].age < VirusMaxAge)
          => \E j \in DOMAIN viruses' : viruses'[j].id = viruses[i].id]_vars

\* C34: a living reflect-defence cell accumulates reflectCharge, 0.4 per
\* tick up to its cap of 50: after t ticks it holds min(50, 0.4 t), so that
\* from tick 51 on its charge is above 20 and an attack is reflected.
CexC34 ==
    \A c \in Range(cells) :
        (cell[c].defenseType = "reflect" /\ tick > 0) =>
            LET rc == cell[c].defenseStates.reflectCharge
            IN  /\ rc.defined
                /\ rc.value = Min(500, 4 * tick)
                /\ tick >= 51 => rc.value > 200

\* C33: every update takes one tick off each active disaster and removes
\* exactly those whose remaining duration is then <= 0; the only temporary
\* hazard zone added is the one of a meteor on the update that triggered it,
\* every update takes one tick off each temporary zone and removes those at
\* <= 0; and whenever a disaster is active or a temporary zone exists, a
\* later state has none.
InvC33 ==
    /\ [][LET ds   == pressure.disasters
              kept == SelectSeq(ds, LAMBDA d : d.duration - 1 > 0)
              new  == pressure'.disasters
              hk   == SelectSeq(pressure.hazardZones, LAMBDA h : h.lifetime - 1 > 0)
              hz   == pressure'.hazardZones
          IN  /\ Len(new) \in {Len(kept), Len(kept) + 1}
              /\ \A i \in DOMAIN kept :
                   new[i] = [kept[i] EXCEPT !.duration = @ - 1, !.age = @ + 1]
              /\ Len(new) = Len(kept) + 1 => new[Len(new)].age = 1
              /\ Len(hz) = Len(hk) + (IF /\ Len(new) = Len(kept) + 1
                                         /\ new[Len(new)].type = "meteor"
                                      THEN 1 ELSE 0)
              /\ \A i \in DOMAIN hk : hz[i].lifetime = hk[i].lifetime - 1]_vars
    /\ (pressure.disasters # <<>>) ~> (pressure.disasters = <<>>)
    /\ (pressure.hazardZones # <<>>) ~> (pressure.hazardZones = <<>>)

\* a meteor was triggered, and it and its hazard zone are gone
WitC33 ==
    /\ \E i \in DOMAIN log : log[i] = "meteor"
    /\ pressure.disasters = <<>>
    /\ pressure.hazardZones = <<>>

\* C39: the number of food particles the FoodManager holds is at most
\* maxFood in every state.
CexC39 == food <= settings.maxFood

\* C35: at the end of every tick the cells list holds at most
\* settings.maxPopulation cells.
CexC35 == pc = "idle" => Len(cells) <= settings.maxPopulation

\* C36: after the reproduction block of a callback, an offspring that was
\* not pushed to newCells (nor to cells) is in no colony's members list and
\* in no cell's bond list.
CexC36 ==
    \A x \in calls :
        x.op = "reproduction" =>
            \A o \in x.offspring \ (Range(x.cells) \cup Range(x.newCells)) :
                /\ \A k \in DOMAIN x.after.colony : o \notin Range(x.after.colony[k].members)
                /\ \A c \in DOMAIN x.after.cell : o \notin Range(x.after.cell[c].bonds)

\* C32: bonds are keyed by the unordered pair: createBond(a, b) for a pair
\* of members that is bonded already adds no entry, in either order, and
\* for a pair that is not bonded yet (both members below maxBonds) it adds
\* one entry for that pair under a key no other entry has, so that the
\* colony holds one entry per bonded pair.
CexC32 ==
    \A x \in calls :
        x.op = "createBond" =>
            LET pair(e) == {e.cell1, e.cell2}
                bonded  == \E e \in x.before : pair(e) = {x.cell1, x.cell2}
            IN  /\ bonded => x.after = x.before
                /\ ~bonded =>
                     /\ Cardinality(x.after) = Cardinality(x.before) + 1
                     /\ \E e \in x.after \ x.before : pair(e) = {x.cell1, x.cell2}
                /\ \A e, f \in x.after : e.key = f.key => pair(e) = pair(f)

\* C31: a cell whose callback produces an offspring had its reproduction
\* flag set under the reproduction requirements: it is older than 300 ticks
\* and it entered the update that set the flag with more than 80% of its
\* maxEnergy.
CexC31 ==
    [][born' # born =>
          LET p == cells[idx]
          IN  /\ cell'[p].age > 300
              /\ cell[p].energy * 10 > 8 * cell[p].maxEnergy]_vars

\* C38: after reset() the simulation is in a fresh initial state: tick 0,
\* generation 1, exactly initialCells cells, no viruses, no colonies, and
\* the round counters at their initial values (round 1, roundTick 0).
CexC38 ==
    \A x \in calls :
        x.op = "reset" =>
            /\ x.after.tick = 0
            /\ x.after.generation = 1
            /\ Len(x.after.cells) = x.after.settings.initialCells
            /\ x.after.viruses = <<>>
            /\ x.after.colonies = <<>>
            /\ x.after.currentRound = 1
            /\ x.after.roundTick = 0

====
